---------------------------- MODULE Spec2Model ----------------------------
(***************************************************************************)
(* AetherPackBot core runtime: the event bus (core/events.py), the plugin  *)
(* loader (plugins/loader.py) and the engine (core/engine.py).             *)
(*                                                                         *)
(* All code runs on one asyncio loop, so an action is the code executed    *)
(* between two suspension points (awaits) of one task.                     *)
(***************************************************************************)
EXTENDS Integers, Sequences, FiniteSets, TLC

\* ------------------------------------------------------------------ bounds
MaxSubs == 2        \* subscribe calls in one behaviour
MaxInst == 2        \* plugin instances constructed in one behaviour
MaxDirs == 2        \* directories in PluginLoader._plugin_dirs

\* ------------------------------------------------------- program constants
HIGHEST == 0
HIGH == 25
NORMAL == 50
LOW == 75
LOWEST == 100
MONITOR == 1000
EventPriority == {HIGHEST, HIGH, NORMAL, LOW, LOWEST, MONITOR}

\* ------------------------------------------------------------ input sets
EventTypes == {"Base", "Derived"}       \* type(event): exact class, no subtype lookup
HandlerFns == {"f", "g"}                \* handler callables (compared by identity)
Priorities == {HIGH, MONITOR}           \* priorities the callers use
Emitters == {"e1", "e2"}                \* tasks that may call emit
SeqEmitters == {"e1"}                   \* the emitting task of Spec
ParTypes == {"Base"}                    \* the event type SpecParallel emits
PluginNames == {"echo", "chat"}         \* plugin units in the plugin directories
PlatNames == {"telegram", "discord"}    \* platform names, one adapter instance each
EngPlugins == {"echo"}                  \* the plugin SpecEngine loads
EngPlatforms == {"telegram"}            \* the platform SpecEngine registers
Starters == {"s1", "s2"}                \* tasks that call BotEngine.start
Stoppers == {"t1"}                      \* tasks that call BotEngine.stop
SignalTasks == {"t1", "t2"}             \* tasks that signal_handler creates for stop
EngOutcomes == {FALSE}                  \* SpecEngine: the awaited hooks return
LifeStarters == {"s1"}                  \* the task that calls start in SpecLife
ProviderNames == {"openai", "anthropic", "gemini"}  \* names cli.py registers
ProviderObjs == {"o1", "o2"}            \* LLMProvider objects
DefaultNames == {"openai", "gemini", ""}    \* values of Settings.default_provider
MsgCommands == {"ping", "echo", "say", "ai", "help"}    \* command words of messages
CmdNames == {"echo", "say", "ask"}      \* names and aliases given to register_command
CmdHandlers == {"h1", "h2"}             \* command handler callables
CmdAliases == {{}} \cup {{a} : a \in CmdNames}      \* alias lists of a command
AdapterObjs == {"a1", "a2"}             \* Platform adapter objects
Dirs == {"plugins", "user", "extra", "contrib"} \* paths passed to add_directory

VARIABLES
    handlers,   \* EventBus._handlers: event type -> list of HandlerInfo
    nextRid,    \* number of the next HandlerInfo object constructed
    em,         \* per emitting task: the frame of its emit() call
    fired       \* per one-time HandlerInfo object: times invoked (2: twice or more)

VARIABLES
    plugins,        \* BotEngine._plugins: insertion-ordered dict, as list of [name, inst]
    platforms,      \* BotEngine._platforms: insertion-ordered dict, as list of names
    running,        \* BotEngine._running
    shutdown_event, \* BotEngine._shutdown_event is set
    loaded,         \* PluginLoader._loaded: name -> instance, 0 when the name is absent
    nextInst,       \* number of the next Plugin instance constructed
    inst,           \* per Plugin instance: its name, who constructed it, and the
                    \* hooks invoked on it (counts capped at 2: twice or more)
    plat,           \* per platform: start tasks created, stop calls (capped at 2),
                    \* and the state of the start task created last
    emitted,        \* EngineStartedEvent / EngineStoppingEvent emits (capped at 2)
    st,             \* per task calling start(): its frame (see IdleTask)
    sp,             \* per task calling stop(): its frame
    lastCall        \* the call made in the last step, and what it returned

VARIABLES
    commands        \* Plugin._commands of one plugin object: insertion-ordered
                    \* dict, as a list of [name, handler, aliases]

VARIABLES
    plugin_dirs,    \* PluginLoader._plugin_dirs: list of directories
    on_disk,        \* the directories that exist on the file system
    origin          \* per Plugin instance: the directory its unit was found in

VARIABLES
    providers,          \* BotEngine._providers: insertion-ordered dict, as a
                        \* list of [name, inst]
    default_provider,   \* Settings.default_provider, "" when it is set empty
    provider_engine     \* per LLMProvider object: it has an attribute engine
                        \* that refers to the engine

busVars == <<handlers, nextRid, em, fired>>

engineVars == <<plugins, platforms, running, shutdown_event, loaded, nextInst,
                inst, plat, emitted, st, sp, lastCall>>

\* the engine's variables without the record of the last call
engineRest == <<plugins, platforms, running, shutdown_event, loaded, nextInst,
                inst, plat, emitted, st, sp>>

providerVars == <<providers, default_provider, provider_engine>>

loaderVars == <<plugin_dirs, on_disk, origin>>

pluginVars == <<commands>>

vars == <<handlers, nextRid, em, fired, plugins, platforms, running,
          shutdown_event, loaded, nextInst, inst, plat, emitted, st, sp, lastCall,
          providers, default_provider, provider_engine, plugin_dirs, on_disk,
          origin, commands>>

\* ----------------------------------------------------------------- helpers
Min(a, b) == IF a < b THEN a ELSE b

Flag(b) == IF b THEN 1 ELSE 0

\* a call and its result: ret is the instance returned (0: None), for unload
\* 1 for True and 0 for False, and for a start or stop that ran to its end 1
\* when it caught and logged the fault of a hook; note is what the call logged
Call(op, name, ret, note) == [op |-> op, name |-> name, ret |-> ret, note |-> note]

\* a step inside a call that is in progress, or a call whose result is not
\* looked at
NoCall == Call("-", "-", 0, "-")

\* HandlerInfo: the dataclass fields, plus rid, the identity of the object.
HandlerInfo(h, p, o, r) == [handler |-> h, priority |-> p, once |-> o, rid |-> r]

\* dataclass __eq__ of HandlerInfo compares the fields, not the identity
InfoEq(a, b) == a.handler = b.handler /\ a.priority = b.priority /\ a.once = b.once

RemoveAt(s, i) == SubSeq(s, 1, i - 1) \o SubSeq(s, i + 1, Len(s))

\* a bug: a sort that is not stable, the later of two equal keys goes first
RECURSIVE InsertBeforeEqual(_, _)
InsertBeforeEqual(s, x) ==
    IF s = <<>> THEN <<x>>
    ELSE IF Head(s).priority < x.priority
         THEN <<Head(s)>> \o InsertBeforeEqual(Tail(s), x)
         ELSE <<x>> \o s

\* list.sort(key=lambda h: h.priority): a stable sort, as insertion sort
RECURSIVE InsertByPriority(_, _)
InsertByPriority(s, x) ==
    IF s = <<>> THEN <<x>>
    ELSE IF Head(s).priority <= x.priority
         THEN <<Head(s)>> \o InsertByPriority(Tail(s), x)
         ELSE <<x>> \o s

RECURSIVE SortByPriority(_)
SortByPriority(s) ==
    IF s = <<>> THEN <<>>
    ELSE InsertByPriority(SortByPriority(SubSeq(s, 1, Len(s) - 1)), s[Len(s)])

\* a bug: the sort after append is missing
AppendUnsorted(s, info) == Append(s, info)

\* subscribe, lines 86-88: append, then sort by priority
AppendSorted(s, info) == SortByPriority(Append(s, info))

\* a bug: the list is searched from its end, the last registration whose
\* handler is h is found
RECURSIVE LastHandlerIdx(_, _, _)
LastHandlerIdx(s, h, i) ==
    IF i > Len(s) THEN 0
    ELSE IF s[Len(s) + 1 - i].handler = h THEN Len(s) + 1 - i
    ELSE LastHandlerIdx(s, h, i + 1)

\* index of the first registration whose handler is h, 0 when there is none
RECURSIVE FirstHandlerIdx(_, _, _)
FirstHandlerIdx(s, h, i) ==
    IF i > Len(s) THEN 0
    ELSE IF s[i].handler = h THEN i
    ELSE FirstHandlerIdx(s, h, i + 1)

\* index of the first element equal (==) to info, 0 when there is none
RECURSIVE FirstEqIdx(_, _, _)
FirstEqIdx(s, info, i) ==
    IF i > Len(s) THEN 0
    ELSE IF InfoEq(s[i], info) THEN i
    ELSE FirstEqIdx(s, info, i + 1)

\* emit, lines 121-122: list.remove for each fired one-time handler, in
\* order; list.remove raises ValueError when nothing equal is in the list,
\* which ends the loop with the earlier removals done.
RECURSIVE RemoveFired(_, _)
RemoveFired(s, rem) ==
    IF rem = <<>> THEN [list |-> s, ok |-> TRUE]
    ELSE LET i == FirstEqIdx(s, Head(rem), 1)
         IN IF i = 0 THEN [list |-> s, ok |-> FALSE]
            ELSE RemoveFired(RemoveAt(s, i), Tail(rem))

\* a bug: the lookup walks the class hierarchy, so that an event of the
\* derived type also reaches the handlers subscribed to its base type
RegistrationsWithBase(hs, t) ==
    IF t = "Derived" THEN hs["Derived"] \o hs["Base"] ELSE hs[t]

\* emit line 103-104, emit_parallel lines 128-129: the list stored under
\* type(event), the event's own class, and no other key of the mapping
Registrations(hs, t) == hs[t]

\* a bug: the loop runs over the live list instead of a copy
IterSourceLive(f) == handlers[f.event_type]

\* emit, line 104 and 108: the loop runs over the copy taken at the call
IterSource(f) == f.snapshot

\* a bug: the cancelled flag is not looked at
LoopExitsIgnoringCancel(src, i, canc) == i >= Len(src)

\* emit, lines 108-111: the for loop ends at the end of the list, or breaks
\* when the event is cancelled
LoopExits(src, i, canc) == i >= Len(src) \/ canc

\* a bug: no except clause, the handler's exception leaves emit
FaultEscapesUncaught(raised) == raised

\* emit, lines 113-118: except Exception logs the fault and goes on
FaultEscapes(raised) == FALSE

\* emit, lines 114-116: a handler that returned and is once is collected
Collect(rem, info, raised) ==
    IF ~raised /\ info.once THEN Append(rem, info) ELSE rem

\* a bug: the handler is started and not awaited, the loop goes on while the
\* handler is still in progress
FinishedNotAwaited(active, k) == active

\* emit, line 114: await hands control back only when the handler, the k-th
\* one invoked by this call, has returned or raised
Finished(active, k) == active \ {k}

\* The frame of an emit or emit_parallel call. invoked: the registrations
\* whose handler the call has invoked, in order; active: the positions in
\* invoked of the handlers that are in progress.
IdleFrame ==
    [pc |-> "idle", op |-> "-", event_type |-> "Base", cancelled |-> FALSE,
     snapshot |-> <<>>, atCall |-> <<>>, idx |-> 0, to_remove |-> <<>>,
     invoked |-> <<>>, raisedAt |-> 0, active |-> {}]

\* The frame and the bus after the loop of emit has been (re)entered with
\* frame f: either the next handler is invoked (and the task is suspended in
\* it), or the loop is left, the fired one-time handlers are removed and
\* emit returns (or raises ValueError out of list.remove).
Dispatch(e, f) ==
    LET src == IterSource(f)
    IN IF LoopExits(src, f.idx, f.cancelled)
       THEN LET r == RemoveFired(handlers[f.event_type], f.to_remove)
            IN /\ handlers' = [handlers EXCEPT ![f.event_type] = r.list]
               /\ em' = [em EXCEPT ![e] =
                     [f EXCEPT !.pc = IF r.ok THEN "returned" ELSE "ValueError"]]
               /\ fired' = fired
       ELSE LET info == src[f.idx + 1]
            IN /\ handlers' = handlers
               /\ em' = [em EXCEPT ![e] =
                     [f EXCEPT !.pc = "handler", !.idx = f.idx + 1,
                               !.invoked = Append(f.invoked, info),
                               !.active = f.active \cup {Len(f.invoked) + 1}]]
               /\ fired' = IF info.once
                           THEN [fired EXCEPT ![info.rid] = Min(@ + 1, 2)]
                           ELSE fired

\* emit has ended in task e: returned its event, or raised
Ended(e) == em[e].pc \in {"returned", "ValueError", "fault"}

\* No emit has just ended. The caller of emit resumes in the same step of the
\* loop in which emit ends (no suspension lies between), so nothing else
\* runs before EmitReturn.
Settled == \A e \in Emitters : ~Ended(e)

\* ----------------------------------------------------------------- actions
BusInit ==
    /\ handlers = [t \in EventTypes |-> <<>>]
    /\ nextRid = 1
    /\ em = [e \in Emitters |-> IdleFrame]
    /\ fired = [r \in 1..MaxSubs |-> 0]

\* EventBus.subscribe
Subscribe(t, h, p, o) ==
    /\ Settled
    /\ nextRid <= MaxSubs
    /\ handlers' = [handlers EXCEPT ![t] = AppendSorted(@, HandlerInfo(h, p, o, nextRid))]
    /\ nextRid' = nextRid + 1
    /\ lastCall' = NoCall
    /\ UNCHANGED <<em, fired, engineRest, providerVars, loaderVars, pluginVars>>

\* EventBus.unsubscribe, by a caller that does not look at the result
Unsubscribe(t, h) ==
    LET i == FirstHandlerIdx(handlers[t], h, 1)
    IN /\ Settled
       /\ handlers' = IF i = 0 THEN handlers
                      ELSE [handlers EXCEPT ![t] = RemoveAt(@, i)]
       /\ lastCall' = NoCall
       /\ UNCHANGED <<nextRid, em, fired, engineRest, providerVars, loaderVars, pluginVars>>

\* EventBus.unsubscribe, by a caller that keeps the result: the call is
\* recorded with the handler as its name, the event type as its note, and 1
\* for True or 0 for False as ret
UnsubscribeCall(t, h) ==
    LET i == FirstHandlerIdx(handlers[t], h, 1)
    IN /\ Settled
       /\ handlers' = IF i = 0 THEN handlers
                      ELSE [handlers EXCEPT ![t] = RemoveAt(@, i)]
       /\ lastCall' = Call("unsubscribe", h, Flag(i # 0), t)
       /\ UNCHANGED <<nextRid, em, fired, engineRest, providerVars, loaderVars, pluginVars>>

\* EventBus.clear(event_type)
Clear(t) ==
    /\ Settled
    /\ handlers' = [handlers EXCEPT ![t] = <<>>]
    /\ lastCall' = NoCall
    /\ UNCHANGED <<nextRid, em, fired, engineRest, providerVars, loaderVars, pluginVars>>

\* EventBus.clear()
ClearAll ==
    /\ Settled
    /\ handlers' = [t \in EventTypes |-> <<>>]
    /\ lastCall' = NoCall
    /\ UNCHANGED <<nextRid, em, fired, engineRest, providerVars, loaderVars, pluginVars>>

\* EventBus.emit is called by task e with an event of type t whose cancelled
\* flag is c; runs up to the first handler invocation (or to the return).
EmitCall(e, t, c) ==
    /\ Settled
    /\ em[e].pc = "idle"
    /\ lastCall' = NoCall
    /\ UNCHANGED <<nextRid, engineRest, providerVars, loaderVars, pluginVars>>
    /\ Dispatch(e, [pc |-> "loop", op |-> "emit", event_type |-> t,
                    cancelled |-> c, snapshot |-> Registrations(handlers, t),
                    atCall |-> Registrations(handlers, t), idx |-> 0,
                    to_remove |-> <<>>, invoked |-> <<>>, raisedAt |-> 0,
                    active |-> {}])

\* The handler in which emit of task e is suspended calls event.cancel().
HandlerCancel(e) ==
    /\ Settled
    /\ em[e].pc = "handler"
    /\ ~em[e].cancelled
    /\ em' = [em EXCEPT ![e].cancelled = TRUE]
    /\ lastCall' = NoCall
    /\ UNCHANGED <<handlers, nextRid, fired, engineRest, providerVars, loaderVars,
                   pluginVars>>

\* The handler in which emit of task e is suspended finishes, by returning
\* or by raising an Exception; emit resumes and runs to its next suspension.
HandlerFinish(e, raised) ==
    /\ Settled
    /\ em[e].pc = "handler"
    /\ lastCall' = NoCall
    /\ UNCHANGED <<nextRid, engineRest, providerVars, loaderVars, pluginVars>>
    /\ LET f == em[e]
           info == f.invoked[Len(f.invoked)]
           g == [f EXCEPT !.to_remove = Collect(f.to_remove, info, raised),
                          !.active = Finished(f.active, Len(f.invoked)),
                          !.raisedAt = IF raised /\ f.raisedAt = 0
                                       THEN Len(f.invoked) ELSE f.raisedAt]
       IN IF FaultEscapes(raised)
          THEN /\ em' = [em EXCEPT ![e] = [g EXCEPT !.pc = "fault"]]
               /\ UNCHANGED <<handlers, fired>>
          ELSE Dispatch(e, g)

\* The caller of emit takes the result; the frame of the call is dropped.
EmitReturn(e) ==
    /\ Ended(e)
    /\ em' = [em EXCEPT ![e] = IdleFrame]
    /\ lastCall' = NoCall
    /\ UNCHANGED <<handlers, nextRid, fired, engineRest, providerVars, loaderVars,
                   pluginVars>>

\* a bug: gather without return_exceptions, the first exception of a handler
\* leaves emit_parallel while the other handlers are in progress
GatherFaultEscapesUncaught(raised) == raised

\* emit_parallel, line 133: gather(*tasks, return_exceptions=True) hands the
\* exception of a handler back as that handler's result
GatherFaultEscapes(raised) == FALSE

\* EventBus.emit_parallel is called by task e with an event of type t whose
\* cancelled flag is c: a coroutine is made of every handler in the list
\* (line 131, no suspension, the cancelled flag is not read) and gather runs
\* them all as tasks; with an empty list the call returns at once.
EmitParallelCall(e, t, c) ==
    /\ Settled
    /\ em[e].pc = "idle"
    /\ LET found == Registrations(handlers, t)
       IN /\ em' = [em EXCEPT ![e] =
                [pc |-> IF found = <<>> THEN "returned" ELSE "gather",
                 op |-> "emit_parallel", event_type |-> t, cancelled |-> c,
                 snapshot |-> found, atCall |-> found,
                 idx |-> Len(found), to_remove |-> <<>>,
                 invoked |-> found, raisedAt |-> 0,
                 active |-> 1..Len(found)]]
          /\ fired' = [r \in 1..MaxSubs |->
                          IF \E k \in 1..Len(found) :
                                found[k].rid = r /\ found[k].once
                          THEN Min(fired[r] + 1, 2) ELSE fired[r]]
    /\ lastCall' = NoCall
    /\ UNCHANGED <<handlers, nextRid, engineRest, providerVars, loaderVars, pluginVars>>

\* One of the handlers that emit_parallel of task e runs calls event.cancel().
ParallelHandlerCancel(e) ==
    /\ Settled
    /\ em[e].pc = "gather"
    /\ ~em[e].cancelled
    /\ em' = [em EXCEPT ![e].cancelled = TRUE]
    /\ lastCall' = NoCall
    /\ UNCHANGED <<handlers, nextRid, fired, engineRest, providerVars, loaderVars,
                   pluginVars>>

\* The k-th handler that emit_parallel of task e runs finishes, by returning
\* or by raising an Exception; gather is done when all have finished, and
\* emit_parallel then logs the exceptions (lines 134-136) and returns the
\* event. The registration list is not touched.
ParallelHandlerFinish(e, k, raised) ==
    /\ Settled
    /\ em[e].pc = "gather"
    /\ k \in em[e].active
    /\ LET f == em[e]
           g == [f EXCEPT !.active = f.active \ {k},
                          !.raisedAt = IF raised /\ f.raisedAt = 0
                                       THEN k ELSE f.raisedAt]
       IN em' = [em EXCEPT ![e] =
             [g EXCEPT !.pc = IF GatherFaultEscapes(raised) THEN "fault"
                              ELSE IF g.active = {} THEN "returned"
                              ELSE "gather"]]
    /\ lastCall' = NoCall
    /\ UNCHANGED <<handlers, nextRid, fired, engineRest, providerVars, loaderVars,
                   pluginVars>>

Next ==
    \/ \E t \in EventTypes, h \in HandlerFns, p \in Priorities, o \in BOOLEAN :
          Subscribe(t, h, p, o)
    \/ \E t \in EventTypes, h \in HandlerFns : Unsubscribe(t, h)
    \/ \E t \in EventTypes : Clear(t)
    \/ ClearAll
    \/ \E e \in SeqEmitters, t \in EventTypes, c \in BOOLEAN : EmitCall(e, t, c)
    \/ \E e \in SeqEmitters : HandlerCancel(e)
    \/ \E e \in SeqEmitters, raised \in BOOLEAN : HandlerFinish(e, raised)
    \/ \E e \in SeqEmitters : EmitReturn(e)

\* ------------------------------------------------------------------ engine
\* a bug: a key that is set again moves to the end
RECURSIVE DictSetAtEnd(_, _, _)
DictSetAtEnd(d, n, i) ==
    IF d = <<>> THEN <<[name |-> n, inst |-> i]>>
    ELSE IF Head(d).name = n THEN DictSetAtEnd(Tail(d), n, i)
    ELSE <<Head(d)>> \o DictSetAtEnd(Tail(d), n, i)

\* dict[name] = i on an insertion-ordered dict: an existing key keeps its
\* position and takes the new value, a new key goes to the end
DictSet(d, n, i) ==
    IF \E k \in 1..Len(d) : d[k].name = n
    THEN [k \in 1..Len(d) |-> IF d[k].name = n THEN [name |-> n, inst |-> i] ELSE d[k]]
    ELSE Append(d, [name |-> n, inst |-> i])

Bump(c) == Min(c + 1, 2)

NoInst == [name |-> "-", loads |-> 0, unloads |-> 0, live |-> FALSE, engine |-> FALSE]

\* the frame of a start or stop call: pos items taken out of a registry that
\* had n items when the loop began; faulted: a hook of this call has raised
IdleTask == [pc |-> "idle", pos |-> 0, n |-> 0, faulted |-> FALSE]

\* a bug: load does not look at the tracked set
AlreadyLoadedIgnored(ld, n) == FALSE

\* PluginLoader.load, line 51: name in self._loaded
AlreadyLoaded(ld, n) == ld[n] # 0

\* a bug: start does not look at the running flag
AlreadyRunningIgnored == FALSE

\* BotEngine.start, line 102: if self._running
AlreadyRunning == running

\* a bug: stop does not look at the running flag
NotRunningIgnored == FALSE

\* BotEngine.stop, line 135: if not self._running
NotRunning == ~running

\* a bug: the registry is walked from its newest entry to its oldest
ItemAtReversed(d, pos) == d[Len(d) - pos]

\* BotEngine.start line 110, stop lines 142 and 150: dict.items() yields the
\* entries in insertion order; the entry after pos entries have been taken
ItemAt(d, pos) == d[pos + 1]

\* a bug: no except clause around on_load
LoadFaultEscapesUncaught(raised) == raised

\* BotEngine.start, lines 111-115: except Exception logs plugin_load_failed
LoadFaultEscapes(raised) == FALSE

\* a bug: no except clause around platform.stop and on_unload
StopFaultEscapesUncaught(raised) == raised

\* BotEngine.stop, lines 143-147 and 151-155: except Exception logs the fault
StopFaultEscapes(raised) == FALSE

EngineInit ==
    /\ plugins = <<>>
    /\ platforms = <<>>
    /\ running = FALSE
    /\ shutdown_event = FALSE
    /\ loaded = [n \in PluginNames |-> 0]
    /\ nextInst = 1
    /\ inst = [i \in 1..MaxInst |-> NoInst]
    /\ plat = [n \in PlatNames |->
                  [starts |-> 0, stops |-> 0, task |-> "-", obj |-> "-", engine |-> FALSE]]
    /\ emitted = [started |-> 0, stopping |-> 0]
    /\ st = [s \in Starters |-> IdleTask]
    /\ sp = [t \in SignalTasks |-> IdleTask]
    /\ lastCall = NoCall

\* BotEngine.register_platform(name, adapter object a): the key keeps its
\* place or goes to the end, the object is stored and gets the engine as its
\* engine attribute; the call is recorded with the object as its note
RegisterAdapter(n, a) ==
    /\ platforms' = IF \E k \in 1..Len(platforms) : platforms[k] = n
                    THEN platforms ELSE Append(platforms, n)
    /\ plat' = [plat EXCEPT ![n].obj = a, ![n].engine = TRUE]
    /\ lastCall' = Call("register_platform", n, 0, a)
    /\ UNCHANGED <<plugins, running, shutdown_event, loaded, nextInst, inst,
                   emitted, st, sp, busVars, providerVars, loaderVars, pluginVars>>

\* BotEngine.register_platform(name, the adapter made for that name)
RegisterPlatform(n) == RegisterAdapter(n, n)

\* BotEngine.register_plugin(name, a new instance), called directly
RegisterPlugin(n) ==
    /\ nextInst <= MaxInst
    /\ plugins' = DictSet(plugins, n, nextInst)
    /\ inst' = [inst EXCEPT ![nextInst] = [NoInst EXCEPT !.name = n, !.engine = TRUE]]
    /\ nextInst' = nextInst + 1
    /\ lastCall' = Call("register_plugin", n, 0, "plugin_registered")
    /\ UNCHANGED <<platforms, running, shutdown_event, loaded, plat, emitted, st, sp,
                   busVars, providerVars, loaderVars, pluginVars>>

\* What load finds for a name, and what comes of loading it:
\*   "missing"      no registered directory holds a unit of that name
\*   "no_class"     the unit runs and defines no subclass of Plugin
\*   "exec_raises"  running the unit raises an Exception
\*   "ctor_raises"  the constructor of the plugin class raises an Exception
\*   "meta_raises"  reading plugin.meta.version raises an Exception
\*   "ok"           none of these
UnitKinds == {"missing", "no_class", "exec_raises", "ctor_raises", "meta_raises", "ok"}

\* a bug: the name is tracked and registered before the constructor has run
RegistersEarly(unit) == unit \in {"ok", "meta_raises", "ctor_raises"}

\* _load_from_path, lines 93-98: the instance is tracked and registered when
\* the unit has run, a class was found and the constructor has returned;
\* line 100, which reads plugin.meta.version, comes after
Registers(unit) == unit \in {"ok", "meta_raises"}

\* what a load that returns None has logged: load line 66, _load_from_path
\* line 89, and line 104 for any Exception raised inside the try
FailureLog(unit) ==
    CASE unit = "missing" -> "plugin_not_found"
      [] unit = "no_class" -> "no_plugin_class"
      [] OTHER -> "plugin_load_failed"

\* PluginLoader.load(name) on the tracked set ld (self._loaded as the caller
\* left it); unit tells what the registered directories hold under that
\* name. Constructs the instance and registers it with the engine.
LoadOn(ld, op, n, unit) ==
    IF AlreadyLoaded(ld, n)
    THEN /\ lastCall' = Call(op, n, ld[n], "plugin_already_loaded")
         /\ loaded' = ld
         /\ UNCHANGED <<plugins, inst, nextInst>>
    ELSE IF ~Registers(unit)
    THEN /\ lastCall' = Call(op, n, 0, FailureLog(unit))
         /\ loaded' = ld
         /\ UNCHANGED <<plugins, inst, nextInst>>
    ELSE /\ nextInst <= MaxInst
         /\ loaded' = [ld EXCEPT ![n] = nextInst]
         /\ plugins' = DictSet(plugins, n, nextInst)
         /\ inst' = [inst EXCEPT ![nextInst] = [NoInst EXCEPT !.name = n, !.engine = TRUE]]
         /\ nextInst' = nextInst + 1
         /\ lastCall' = IF unit = "ok"
                        THEN Call(op, n, nextInst, "plugin_loaded")
                        ELSE Call(op, n, 0, "plugin_load_failed")

\* PluginLoader.load
Load(n, unit) ==
    /\ LoadOn(loaded, "load", n, unit)
    /\ UNCHANGED <<platforms, running, shutdown_event, plat, emitted, st, sp, busVars,
                   providerVars, loaderVars, pluginVars>>

\* a bug: unload does not look at the tracked set and reports True always
TrackedAlways(ld, n) == TRUE

\* PluginLoader.unload, line 109: name in self._loaded
Tracked(ld, n) == ld[n] # 0

\* PluginLoader.unload
Unload(n) ==
    /\ loaded' = [loaded EXCEPT ![n] = 0]
    /\ lastCall' = Call("unload", n, Flag(Tracked(loaded, n)),
                        IF Tracked(loaded, n) THEN "plugin_unloaded" ELSE "-")
    /\ UNCHANGED <<plugins, platforms, running, shutdown_event, nextInst, inst, plat,
                   emitted, st, sp, busVars, providerVars, loaderVars, pluginVars>>

\* PluginLoader.reload: unload, then load
Reload(n, unit) ==
    /\ LoadOn([loaded EXCEPT ![n] = 0], "reload", n, unit)
    /\ UNCHANGED <<platforms, running, shutdown_event, plat, emitted, st, sp, busVars,
                   providerVars, loaderVars, pluginVars>>

\* BotEngine.request_shutdown
RequestShutdown ==
    /\ shutdown_event' = TRUE
    /\ lastCall' = Call("request_shutdown", "-", 0, "-")
    /\ UNCHANGED <<plugins, platforms, running, loaded, nextInst, inst, plat, emitted,
                   st, sp, busVars, providerVars, loaderVars, pluginVars>>

\* a bug: start awaits the platform tasks it has created before it goes on
AwaitsPendingTasks(tasks) == \E p \in PlatNames : tasks[p].task = "pending"

\* BotEngine.start, lines 118-127: the tasks made by create_task are kept in
\* the local list platform_tasks, which nothing awaits; the emit follows
AwaitsTasks(tasks) == FALSE

\* BotEngine.start from the head of the plugin loop (line 110) with pos items
\* taken out of a dict that had n items when the loop began, flt telling
\* whether an on_load of this call has raised: the dict iterator raises
\* RuntimeError when the dict has changed size; else the next on_load is
\* invoked; after the last one the platform tasks are created (lines 118-125,
\* no suspension) and EngineStartedEvent is emitted.
LoadHooks(s, pos, n, flt) ==
    IF Len(plugins) # n
    THEN /\ st' = [st EXCEPT ![s] = IdleTask]
         /\ lastCall' = Call("start", s, 0, "RuntimeError")
         /\ UNCHANGED <<inst, plat, emitted>>
    ELSE IF pos < n
    THEN /\ inst' = [inst EXCEPT ![ItemAt(plugins, pos).inst].loads = Bump(@),
                                 ![ItemAt(plugins, pos).inst].live = TRUE]
         /\ st' = [st EXCEPT ![s] = [pc |-> "on_load", pos |-> pos + 1, n |-> n,
                                     faulted |-> flt]]
         /\ lastCall' = NoCall
         /\ UNCHANGED <<plat, emitted>>
    ELSE /\ plat' = [p \in PlatNames |->
                        IF \E k \in 1..Len(platforms) : platforms[k] = p
                        THEN [plat[p] EXCEPT !.starts = Bump(@), !.task = "pending"]
                        ELSE plat[p]]
         /\ IF AwaitsTasks(plat')
            THEN /\ st' = [st EXCEPT ![s] = [pc |-> "platform_tasks", pos |-> 0,
                                             n |-> 0, faulted |-> flt]]
                 /\ UNCHANGED emitted
            ELSE /\ emitted' = [emitted EXCEPT !.started = Bump(@)]
                 /\ st' = [st EXCEPT ![s] = [pc |-> "emit_started", pos |-> 0,
                                             n |-> 0, faulted |-> flt]]
         /\ lastCall' = NoCall
         /\ UNCHANGED inst

\* BotEngine.start is called by task s
StartCall(s) ==
    /\ st[s].pc = "idle"
    /\ IF AlreadyRunning
       THEN /\ lastCall' = Call("start", s, 0, "engine_already_running")
            /\ UNCHANGED <<running, inst, plat, emitted, st>>
       ELSE /\ running' = TRUE
            /\ LoadHooks(s, 0, Len(plugins), FALSE)
    /\ UNCHANGED <<plugins, platforms, shutdown_event, loaded, nextInst, sp, busVars,
                   providerVars, loaderVars, pluginVars>>

\* the on_load in which start of task s is suspended returns, or raises an
\* Exception (lines 112-115: logged either way); the loop goes on
OnLoadDone(s, raised) ==
    /\ st[s].pc = "on_load"
    /\ IF LoadFaultEscapes(raised)
       THEN /\ st' = [st EXCEPT ![s] = IdleTask]
            /\ lastCall' = Call("start", s, 0, "Exception")
            /\ UNCHANGED <<inst, plat, emitted>>
       ELSE LoadHooks(s, st[s].pos, st[s].n, st[s].faulted \/ raised)
    /\ UNCHANGED <<plugins, platforms, running, shutdown_event, loaded, nextInst, sp,
                   busVars, providerVars, loaderVars, pluginVars>>

\* the task of a platform's start(), created by BotEngine.start line 121,
\* ends: start() returned, or raised (the adapters log and re-raise, and the
\* exception stays in the task, which nothing awaits)
PlatformStartEnds(p, raised) ==
    /\ plat[p].task = "pending"
    /\ plat' = [plat EXCEPT ![p].task = IF raised THEN "raised" ELSE "returned"]
    /\ lastCall' = NoCall
    /\ UNCHANGED <<plugins, platforms, running, shutdown_event, loaded, nextInst, inst,
                   emitted, st, sp, busVars, providerVars, loaderVars, pluginVars>>

\* the emit of EngineStartedEvent returns; start waits for the shutdown event
\* (line 131) and returns at once when it is already set
StartedEmitDone(s) ==
    /\ st[s].pc = "emit_started"
    /\ IF shutdown_event
       THEN /\ st' = [st EXCEPT ![s] = IdleTask]
            /\ lastCall' = Call("start", s, Flag(st[s].faulted), "returned")
       ELSE /\ st' = [st EXCEPT ![s].pc = "waiting"]
            /\ lastCall' = NoCall
    /\ UNCHANGED <<plugins, platforms, running, shutdown_event, loaded, nextInst, inst,
                   plat, emitted, sp, busVars, providerVars, loaderVars, pluginVars>>

\* the shutdown event is set: start of task s returns
StartWake(s) ==
    /\ st[s].pc = "waiting"
    /\ shutdown_event
    /\ st' = [st EXCEPT ![s] = IdleTask]
    /\ lastCall' = Call("start", s, Flag(st[s].faulted), "returned")
    /\ UNCHANGED <<plugins, platforms, running, shutdown_event, loaded, nextInst, inst,
                   plat, emitted, sp, busVars, providerVars, loaderVars, pluginVars>>

\* BotEngine.stop from the head of the plugin loop (line 150): RuntimeError
\* when the dict changed size, else the next on_unload, and after the last
\* one the running flag is cleared and the shutdown event set (lines 157-158)
UnloadHooks(t, pos, n, flt) ==
    IF Len(plugins) # n
    THEN /\ sp' = [sp EXCEPT ![t] = IdleTask]
         /\ lastCall' = Call("stop", t, 0, "RuntimeError")
         /\ UNCHANGED <<inst, plat, running, shutdown_event>>
    ELSE IF pos < n
    THEN /\ inst' = [inst EXCEPT ![ItemAt(plugins, pos).inst].unloads = Bump(@),
                                 ![ItemAt(plugins, pos).inst].live = FALSE]
         /\ sp' = [sp EXCEPT ![t] = [pc |-> "on_unload", pos |-> pos + 1, n |-> n,
                                     faulted |-> flt]]
         /\ lastCall' = NoCall
         /\ UNCHANGED <<plat, running, shutdown_event>>
    ELSE /\ running' = FALSE
         /\ shutdown_event' = TRUE
         /\ sp' = [sp EXCEPT ![t] = IdleTask]
         /\ lastCall' = Call("stop", t, Flag(flt), "engine_stopped")
         /\ UNCHANGED <<inst, plat>>

\* BotEngine.stop from the head of the platform loop (line 142)
StopPlatforms(t, pos, n, flt) ==
    IF Len(platforms) # n
    THEN /\ sp' = [sp EXCEPT ![t] = IdleTask]
         /\ lastCall' = Call("stop", t, 0, "RuntimeError")
         /\ UNCHANGED <<inst, plat, running, shutdown_event>>
    ELSE IF pos < n
    THEN /\ plat' = [plat EXCEPT ![ItemAt(platforms, pos)].stops = Bump(@)]
         /\ sp' = [sp EXCEPT ![t] = [pc |-> "platform_stop", pos |-> pos + 1, n |-> n,
                                     faulted |-> flt]]
         /\ lastCall' = NoCall
         /\ UNCHANGED <<inst, running, shutdown_event>>
    ELSE UnloadHooks(t, 0, Len(plugins), flt)

\* BotEngine.stop is called by task t
StopCall(t) ==
    /\ sp[t].pc = "idle"
    /\ IF NotRunning
       THEN /\ lastCall' = Call("stop", t, 0, "not_running")
            /\ UNCHANGED <<emitted, sp>>
       ELSE /\ emitted' = [emitted EXCEPT !.stopping = Bump(@)]
            /\ sp' = [sp EXCEPT ![t] = [IdleTask EXCEPT !.pc = "emit_stopping"]]
            /\ lastCall' = NoCall
    /\ UNCHANGED <<plugins, platforms, running, shutdown_event, loaded, nextInst, inst,
                   plat, st, busVars, providerVars, loaderVars, pluginVars>>

\* a bug: the plugins are unloaded while the platforms still run
StoppingEmitDoneSkipsPlatforms(t) ==
    /\ sp[t].pc = "emit_stopping"
    /\ UnloadHooks(t, 0, Len(plugins), FALSE)
    /\ UNCHANGED <<plugins, platforms, loaded, nextInst, emitted, st, busVars,
                   providerVars, loaderVars, pluginVars>>

\* the emit of EngineStoppingEvent returns; the platform loop begins
StoppingEmitDone(t) ==
    /\ sp[t].pc = "emit_stopping"
    /\ StopPlatforms(t, 0, Len(platforms), FALSE)
    /\ UNCHANGED <<plugins, platforms, loaded, nextInst, emitted, st, busVars,
                   providerVars, loaderVars, pluginVars>>

\* the end of a hook awaited by stop: a fault that the except clause does not
\* catch leaves stop at once, with the engine still marked running
StopHookDone(t, raised, rest) ==
    IF StopFaultEscapes(raised)
    THEN /\ sp' = [sp EXCEPT ![t] = IdleTask]
         /\ lastCall' = Call("stop", t, 0, "Exception")
         /\ UNCHANGED <<inst, plat, running, shutdown_event>>
    ELSE rest

\* the platform stop() in which stop of task t is suspended returns or raises
PlatformStopDone(t, raised) ==
    /\ sp[t].pc = "platform_stop"
    /\ StopHookDone(t, raised,
                    StopPlatforms(t, sp[t].pos, sp[t].n, sp[t].faulted \/ raised))
    /\ UNCHANGED <<plugins, platforms, loaded, nextInst, emitted, st, busVars,
                   providerVars, loaderVars, pluginVars>>

\* the on_unload in which stop of task t is suspended returns or raises
OnUnloadDone(t, raised) ==
    /\ sp[t].pc = "on_unload"
    /\ StopHookDone(t, raised,
                    UnloadHooks(t, sp[t].pos, sp[t].n, sp[t].faulted \/ raised))
    /\ UNCHANGED <<plugins, platforms, loaded, nextInst, emitted, st, busVars,
                   providerVars, loaderVars, pluginVars>>

NextEngine ==
    \/ \E n \in EngPlatforms : RegisterPlatform(n)
    \/ \E n \in EngPlugins, unit \in {"ok", "missing"} : Load(n, unit)
    \/ \E n \in EngPlugins : Unload(n)
    \/ \E n \in EngPlugins, unit \in {"ok", "missing"} : Reload(n, unit)
    \/ RequestShutdown
    \/ \E s \in Starters : StartCall(s)
    \/ \E s \in Starters, raised \in EngOutcomes : OnLoadDone(s, raised)
    \/ \E s \in Starters : StartedEmitDone(s)
    \/ \E s \in Starters : StartWake(s)
    \/ \E t \in Stoppers : StopCall(t)
    \/ \E t \in Stoppers : StoppingEmitDone(t)
    \/ \E t \in Stoppers, raised \in EngOutcomes : PlatformStopDone(t, raised)
    \/ \E t \in Stoppers, raised \in EngOutcomes : OnUnloadDone(t, raised)

\* The engine and the loader started and stopped any number of times, with
\* no call of request_shutdown.
NextCycles ==
    \/ \E n \in EngPlatforms : RegisterPlatform(n)
    \/ \E n \in EngPlugins, unit \in {"ok", "missing"} : Load(n, unit)
    \/ \E n \in EngPlugins : Unload(n)
    \/ \E n \in EngPlugins, unit \in {"ok", "missing"} : Reload(n, unit)
    \/ \E s \in Starters : StartCall(s)
    \/ \E s \in Starters, raised \in EngOutcomes : OnLoadDone(s, raised)
    \/ \E s \in Starters : StartedEmitDone(s)
    \/ \E s \in Starters : StartWake(s)
    \/ \E t \in Stoppers : StopCall(t)
    \/ \E t \in Stoppers : StoppingEmitDone(t)
    \/ \E t \in Stoppers, raised \in EngOutcomes : PlatformStopDone(t, raised)
    \/ \E t \in Stoppers, raised \in EngOutcomes : OnUnloadDone(t, raised)

\* cli.py line 125: the entry point calls run_forever, and so start, once
FirstRun == emitted.started = 0

\* The engine as the entry point drives it, with its components registered
\* directly: two plugins, two platforms, hooks and platform tasks that return
\* or raise, one start.
NextLife ==
    \/ \E n \in PlatNames : RegisterPlatform(n)
    \/ \E n \in PluginNames : RegisterPlugin(n)
    \/ \E s \in LifeStarters : FirstRun /\ StartCall(s)
    \/ \E s \in LifeStarters, raised \in BOOLEAN : OnLoadDone(s, raised)
    \/ \E p \in PlatNames, raised \in BOOLEAN : PlatformStartEnds(p, raised)
    \/ \E s \in LifeStarters : StartedEmitDone(s)
    \/ \E s \in LifeStarters : StartWake(s)
    \/ \E t \in Stoppers : StopCall(t)
    \/ \E t \in Stoppers : StoppingEmitDone(t)
    \/ \E t \in Stoppers, raised \in BOOLEAN : PlatformStopDone(t, raised)
    \/ \E t \in Stoppers, raised \in BOOLEAN : OnUnloadDone(t, raised)

\* PluginLoader.__init__; the directories that exist at the beginning
LoaderInit ==
    /\ plugin_dirs = <<>>
    /\ on_disk = {"plugins", "user", "contrib"}
    /\ origin = [i \in 1..MaxInst |-> "-"]

\* BotEngine.__init__ line 48; Settings.default_provider as shipped; a
\* provider object as its constructor leaves it has no engine attribute
ProviderInit ==
    /\ providers = <<>>
    /\ default_provider = "openai"
    /\ provider_engine = [o \in ProviderObjs |-> FALSE]

\* Plugin.__init__, line 37
CommandInit == commands = <<>>

Init == BusInit /\ EngineInit /\ ProviderInit /\ LoaderInit /\ CommandInit

Spec == Init /\ [][Next]_vars

SpecEngine == Init /\ [][NextEngine]_vars

\* a bug: the fallback takes the provider registered last
FallbackLast(d) == d[Len(d)].inst

\* BotEngine.get_default_provider, line 98: next(iter(self._providers.values()))
Fallback(d) == d[1].inst

\* BotEngine.get_default_provider on the registry d with the configured name
\* dn: "-" stands for None
DefaultProvider(d, dn) ==
    IF d = <<>> THEN "-"
    ELSE IF dn # "" /\ \E k \in 1..Len(d) : d[k].name = dn
    THEN LET k == CHOOSE k \in 1..Len(d) : d[k].name = dn IN d[k].inst
    ELSE Fallback(d)

\* BotEngine.register_provider(name, provider object o): the object is
\* stored and nothing is assigned to it; the call is recorded with the object
\* as its note
RegisterProvider(n, o) ==
    /\ providers' = DictSet(providers, n, o)
    /\ lastCall' = Call("register_provider", n, 0, o)
    /\ UNCHANGED <<default_provider, provider_engine, busVars, plugins, platforms,
                   running, shutdown_event, loaded, nextInst, inst, plat, emitted,
                   st, sp, loaderVars, pluginVars>>

\* the settings are loaded with default_provider = dn
Configure(dn) ==
    /\ default_provider' = dn
    /\ lastCall' = Call("settings", dn, 0, "-")
    /\ UNCHANGED <<providers, provider_engine, busVars, plugins, platforms, running,
                   shutdown_event, loaded, nextInst, inst, plat, emitted, st, sp,
                   loaderVars, pluginVars>>

\* BotEngine.get_default_provider: ret is 1 when a provider is returned, and
\* note is the provider object
GetDefaultProvider ==
    /\ LET o == DefaultProvider(providers, default_provider)
       IN lastCall' = Call("get_default_provider", "-", Flag(o # "-"), o)
    /\ UNCHANGED <<providerVars, busVars, plugins, platforms, running,
                   shutdown_event, loaded, nextInst, inst, plat, emitted, st, sp,
                   loaderVars, pluginVars>>

NextProviders ==
    \/ \E n \in ProviderNames, o \in ProviderObjs : RegisterProvider(n, o)
    \/ \E dn \in DefaultNames : Configure(dn)
    \/ GetDefaultProvider

SpecProviders == Init /\ [][NextProviders]_vars

\* Context.is_command and Context.command of an inbound message: the text
\* starts with "/", and its first word without the prefix, in lower case
\* ("-" stands for None)
Contexts ==
    {[is_command |-> TRUE, command |-> c] : c \in MsgCommands}
        \cup {[is_command |-> FALSE, command |-> "-"]}

\* Plugin.register_command on the insertion-ordered dict d of one plugin
RegisterCommand(d, name, handler, aliases) ==
    LET c == [name |-> name, handler |-> handler, aliases |-> aliases]
    IN IF \E k \in 1..Len(d) : d[k].name = name
       THEN [k \in 1..Len(d) |-> IF d[k].name = name THEN c ELSE d[k]]
       ELSE Append(d, c)

\* the commands the on_load of the shipped plugin n registers: the methods
\* that only carry the @command decorator (ping, setprompt) are not among
\* them, nothing reads the decorator's _command_info
UnitCommands(n) ==
    IF n = "echo" THEN RegisterCommand(<<>>, "echo", "echo_command", {"say"})
    ELSE RegisterCommand(RegisterCommand(<<>>, "chat", "chat_command", {}),
                         "ask", "chat_command", {"ai"})

\* Plugin._commands of instance i: empty until its on_load has run
Commands(i) == IF inst[i].loads >= 1 THEN UnitCommands(inst[i].name) ELSE <<>>

\* a bug: the aliases are looked at before the primary names
GetCommandAliasFirst(d, name) ==
    IF \E k \in 1..Len(d) : name \in d[k].aliases
    THEN LET k == CHOOSE k \in 1..Len(d) :
                     /\ name \in d[k].aliases
                     /\ \A j \in 1..(k - 1) : name \notin d[j].aliases
         IN d[k].handler
    ELSE IF \E k \in 1..Len(d) : d[k].name = name
    THEN LET k == CHOOSE k \in 1..Len(d) : d[k].name = name IN d[k].handler
    ELSE "-"

\* Plugin.get_command: "-" stands for None
GetCommand(d, name) ==
    IF \E k \in 1..Len(d) : d[k].name = name
    THEN LET k == CHOOSE k \in 1..Len(d) : d[k].name = name IN d[k].handler
    ELSE IF \E k \in 1..Len(d) : name \in d[k].aliases
    THEN LET k == CHOOSE k \in 1..Len(d) :
                     /\ name \in d[k].aliases
                     /\ \A j \in 1..(k - 1) : name \notin d[j].aliases
         IN d[k].handler
    ELSE "-"

\* EchoPlugin.on_message / ChatPlugin.on_message of instance i with context
\* ctx: the handler of the command is awaited (every handler replies through
\* the context) and True returned, or False. ret is 1 for True.
PluginOnMessage(i, ctx) ==
    /\ inst[i].name # "-"
    /\ LET h == IF ctx.is_command THEN GetCommand(Commands(i), ctx.command) ELSE "-"
       IN lastCall' = Call("on_message", inst[i].name, Flag(h # "-"), ctx.command)
    /\ UNCHANGED <<providerVars, busVars, plugins, platforms, running,
                   shutdown_event, loaded, nextInst, inst, plat, emitted, st, sp,
                   loaderVars, pluginVars>>

\* the plugin instances whose on_message the adapter's _handle_message
\* invokes for a message: it emits the adapter's message event on the bus, to
\* which nothing in the repository subscribes, and awaits Platform.on_message,
\* which passes
PipelineHooks(ctx) == <<>>

\* TelegramPlatform._handle_message / DiscordPlatform._handle_message of
\* adapter p with the context ctx built from the message; self.engine is set
\* by register_platform. ret is the number of plugin on_message hooks invoked.
HandleMessage(p, ctx) ==
    /\ lastCall' = IF p \in {platforms[k] : k \in 1..Len(platforms)}
                   THEN Call("handle_message", p, Len(PipelineHooks(ctx)),
                             "message_event")
                   ELSE Call("handle_message", p, 0, "-")
    /\ UNCHANGED <<providerVars, busVars, plugins, platforms, running,
                   shutdown_event, loaded, nextInst, inst, plat, emitted, st, sp,
                   loaderVars, pluginVars>>

\* The shipped plugins registered and started, and messages coming in.
NextMessages ==
    \/ \E n \in EngPlatforms : RegisterPlatform(n)
    \/ \E n \in PluginNames : RegisterPlugin(n)
    \/ \E s \in LifeStarters : StartCall(s)
    \/ \E s \in LifeStarters, raised \in EngOutcomes : OnLoadDone(s, raised)
    \/ \E s \in LifeStarters : StartedEmitDone(s)
    \/ \E p \in EngPlatforms, ctx \in Contexts : HandleMessage(p, ctx)
    \/ \E i \in 1..MaxInst, ctx \in Contexts : PluginOnMessage(i, ctx)

SpecMessages == Init /\ [][NextMessages]_vars

SpecCycles == Init /\ [][NextCycles]_vars

SpecLife == Init /\ [][NextLife]_vars

\* What the event loop does by itself: a task that can go on is resumed, and
\* (the hooks being assumed to end) every awaited hook and emit comes back.
\* The calls made from outside (start, stop, load, register_...,
\* request_shutdown) are not forced to happen.
EngineProgress ==
    \/ \E s \in Starters, raised \in EngOutcomes : OnLoadDone(s, raised)
    \/ \E s \in Starters : StartedEmitDone(s)
    \/ \E s \in Starters : StartWake(s)
    \/ \E t \in Stoppers : StoppingEmitDone(t)
    \/ \E t \in Stoppers, raised \in EngOutcomes : PlatformStopDone(t, raised)
    \/ \E t \in Stoppers, raised \in EngOutcomes : OnUnloadDone(t, raised)

SpecEngineFair == SpecEngine /\ WF_vars(EngineProgress)

\* ------------------------------------------------------- plugin directories
\* The file system: what directory d holds under the name n, as a package
\* d/n/__init__.py or a module d/n.py ("-": neither exists), and what comes
\* of loading it.
UnitIn(d, n) ==
    CASE d = "plugins" /\ n = "echo" -> "ok"
      [] d = "user" /\ n = "echo" -> "no_class"
      [] d = "user" /\ n = "chat" -> "ctor_raises"
      [] d = "extra" /\ n = "echo" -> "exec_raises"
      [] d = "extra" /\ n = "chat" -> "meta_raises"
      [] d = "contrib" /\ n = "echo" -> "ok"
      [] d = "contrib" /\ n = "chat" -> "ok"
      [] OTHER -> "-"

\* a bug: the search goes on to the end, the last directory that holds the
\* unit wins
RECURSIVE LocateLast(_, _)
LocateLast(dirs, n) ==
    IF dirs = <<>> THEN "-"
    ELSE IF UnitIn(dirs[Len(dirs)], n) # "-" THEN dirs[Len(dirs)]
    ELSE LocateLast(SubSeq(dirs, 1, Len(dirs) - 1), n)

\* PluginLoader.load, lines 55-64: the directories are probed in list order
\* and the first one that holds the unit is taken ("-": none holds it)
RECURSIVE Locate(_, _)
Locate(dirs, n) ==
    IF dirs = <<>> THEN "-"
    ELSE IF UnitIn(Head(dirs), n) # "-" THEN Head(dirs)
    ELSE Locate(Tail(dirs), n)

\* what load(n) finds in the directories dirs
Found(dirs, n) ==
    IF Locate(dirs, n) = "-" THEN "missing" ELSE UnitIn(Locate(dirs, n), n)

\* a bug: the path is appended without looking at the file system
SearchableAlways(d) == TRUE

\* add_directory, line 32: path.exists() and path.is_dir()
Searchable(d) == d \in on_disk

\* PluginLoader.add_directory(path)
AddDirectory(d) ==
    /\ Searchable(d) => Len(plugin_dirs) < MaxDirs
    /\ plugin_dirs' = IF Searchable(d) THEN Append(plugin_dirs, d) ELSE plugin_dirs
    /\ lastCall' = Call("add_directory", d, 0,
                        IF Searchable(d) THEN "plugin_dir_added" ELSE "-")
    /\ UNCHANGED <<plugins, platforms, running, shutdown_event, loaded, nextInst, inst,
                   plat, emitted, st, sp, on_disk, origin, busVars, providerVars,
                   pluginVars>>

\* somebody creates the directory d, with its units in it
MakeDirectory(d) ==
    /\ d \notin on_disk
    /\ on_disk' = on_disk \cup {d}
    /\ lastCall' = NoCall
    /\ UNCHANGED <<plugins, platforms, running, shutdown_event, loaded, nextInst, inst,
                   plat, emitted, st, sp, plugin_dirs, origin, busVars, providerVars,
                   pluginVars>>

\* PluginLoader.load(name), with the unit looked up in the directories
LoadFromDirs(n) ==
    /\ LoadOn(loaded, "load", n, Found(plugin_dirs, n))
    /\ origin' = IF nextInst' # nextInst
                 THEN [origin EXCEPT ![nextInst] = Locate(plugin_dirs, n)]
                 ELSE origin
    /\ UNCHANGED <<platforms, running, shutdown_event, plat, emitted, st, sp,
                   plugin_dirs, on_disk, busVars, providerVars,
                   pluginVars>>

\* The loader alone: directories are registered and created, plugins are
\* loaded by name and unloaded.
NextLoader ==
    \/ \E d \in Dirs : AddDirectory(d)
    \/ \E d \in Dirs : MakeDirectory(d)
    \/ \E n \in PluginNames : LoadFromDirs(n)
    \/ \E n \in PluginNames : Unload(n)

SpecLoader == Init /\ [][NextLoader]_vars

\* -------------------------------------------------------------- registries
\* The three registries filled in any order, any adapter or provider object
\* under any name, each plugin registration with an instance of its own.
NextRegistry ==
    \/ \E n \in PlatNames, a \in AdapterObjs : RegisterAdapter(n, a)
    \/ \E n \in ProviderNames, o \in ProviderObjs : RegisterProvider(n, o)
    \/ \E n \in PluginNames : RegisterPlugin(n)

SpecRegistry == Init /\ [][NextRegistry]_vars

\* ------------------------------------------------------------ emit_parallel
\* The bus with one task that calls emit_parallel and emit, while handlers
\* are subscribed and unsubscribed.
NextParallel ==
    \/ \E t \in ParTypes, h \in HandlerFns, p \in Priorities, o \in BOOLEAN :
          Subscribe(t, h, p, o)
    \/ \E t \in ParTypes, h \in HandlerFns : Unsubscribe(t, h)
    \/ \E e \in SeqEmitters, t \in ParTypes, c \in BOOLEAN : EmitParallelCall(e, t, c)
    \/ \E e \in SeqEmitters : ParallelHandlerCancel(e)
    \/ \E e \in SeqEmitters, k \in 1..MaxSubs, raised \in BOOLEAN :
          ParallelHandlerFinish(e, k, raised)
    \/ \E e \in SeqEmitters, t \in ParTypes, c \in BOOLEAN : EmitCall(e, t, c)
    \/ \E e \in SeqEmitters : HandlerCancel(e)
    \/ \E e \in SeqEmitters, raised \in BOOLEAN : HandlerFinish(e, raised)
    \/ \E e \in SeqEmitters : EmitReturn(e)

SpecParallel == Init /\ [][NextParallel]_vars

\* -------------------------------------------------------------- unsubscribe
\* Handlers are subscribed and unsubscribed while one task emits events of
\* one of the types.
NextUnsubscribe ==
    \/ \E t \in EventTypes, h \in HandlerFns, p \in Priorities, o \in BOOLEAN :
          Subscribe(t, h, p, o)
    \/ \E t \in EventTypes, h \in HandlerFns : UnsubscribeCall(t, h)
    \/ \E e \in SeqEmitters, t \in ParTypes : EmitCall(e, t, FALSE)
    \/ \E e \in SeqEmitters : HandlerFinish(e, FALSE)
    \/ \E e \in SeqEmitters : EmitReturn(e)

SpecUnsubscribe == Init /\ [][NextUnsubscribe]_vars

\* ---------------------------------------------------------------- commands
\* Plugin.register_command on the plugin object, called by the plugin or by
\* anybody who holds it: the call is recorded with the handler as its note
RegisterCommandCall(name, handler, aliases) ==
    /\ commands' = RegisterCommand(commands, name, handler, aliases)
    /\ lastCall' = Call("register_command", name, 0, handler)
    /\ UNCHANGED <<busVars, engineRest, providerVars, loaderVars>>

\* Plugin.get_command on the plugin object: ret is 1 when a handler is
\* returned, and note is the handler ("-": None)
GetCommandCall(name) ==
    /\ lastCall' = Call("get_command", name, Flag(GetCommand(commands, name) # "-"),
                        GetCommand(commands, name))
    /\ UNCHANGED <<busVars, engineRest, providerVars, loaderVars, pluginVars>>

\* One plugin object whose commands are registered and looked up.
NextCommands ==
    \/ \E n \in CmdNames, h \in CmdHandlers, a \in CmdAliases :
          RegisterCommandCall(n, h, a)
    \/ \E n \in CmdNames : GetCommandCall(n)

SpecCommands == Init /\ [][NextCommands]_vars

\* ------------------------------------------------------------------ startup
\* One start of an engine whose components are registered directly; the
\* load-hooks return or raise, the platform tasks end or run for ever.
NextStartup ==
    \/ \E n \in PlatNames : RegisterPlatform(n)
    \/ \E n \in PluginNames : RegisterPlugin(n)
    \/ \E s \in LifeStarters : FirstRun /\ StartCall(s)
    \/ \E s \in LifeStarters, raised \in BOOLEAN : OnLoadDone(s, raised)
    \/ \E p \in PlatNames, raised \in BOOLEAN : PlatformStartEnds(p, raised)
    \/ \E s \in LifeStarters : StartedEmitDone(s)

\* every load-hook in which start is suspended returns or raises; nothing is
\* assumed of the platform tasks
LoadHooksEnd == \E s \in LifeStarters, raised \in BOOLEAN : OnLoadDone(s, raised)

SpecStartup == Init /\ [][NextStartup]_vars /\ WF_vars(LoadHooksEnd)

\* ----------------------------------------------------------------- shutdown
\* One start and any number of stop calls on an engine whose components are
\* registered directly: two plugins, one platform, hooks that return or
\* raise.
NextShutdown ==
    \/ \E n \in EngPlatforms : RegisterPlatform(n)
    \/ \E n \in PluginNames : RegisterPlugin(n)
    \/ \E s \in LifeStarters : FirstRun /\ StartCall(s)
    \/ \E s \in LifeStarters, raised \in BOOLEAN : OnLoadDone(s, raised)
    \/ \E s \in LifeStarters : StartedEmitDone(s)
    \/ \E s \in LifeStarters : StartWake(s)
    \/ \E t \in Stoppers : StopCall(t)
    \/ \E t \in Stoppers : StoppingEmitDone(t)
    \/ \E t \in Stoppers, raised \in BOOLEAN : PlatformStopDone(t, raised)
    \/ \E t \in Stoppers, raised \in BOOLEAN : OnUnloadDone(t, raised)

\* What the event loop does by itself, the hooks and handlers being assumed
\* to end: every load-hook, emit, platform stop and unload-hook that a start
\* or stop call awaits comes back, returning or raising, and a start that
\* waits for the shutdown event is resumed when it is set. The calls from
\* outside are not forced.
ShutdownProgress ==
    \/ \E s \in LifeStarters, raised \in BOOLEAN : OnLoadDone(s, raised)
    \/ \E s \in LifeStarters : StartedEmitDone(s)
    \/ \E s \in LifeStarters : StartWake(s)
    \/ \E t \in Stoppers : StoppingEmitDone(t)
    \/ \E t \in Stoppers, raised \in BOOLEAN : PlatformStopDone(t, raised)
    \/ \E t \in Stoppers, raised \in BOOLEAN : OnUnloadDone(t, raised)

SpecShutdown == Init /\ [][NextShutdown]_vars /\ WF_vars(ShutdownProgress)

\* --------------------------------------------------------- overlapping emits
\* Two tasks that call emit on one event type while the bus is subscribed
\* to, unsubscribed from and cleared; the events are not cancelled and the
\* handlers return.
NextOverlap ==
    \/ \E t \in ParTypes, h \in HandlerFns, p \in Priorities, o \in BOOLEAN :
          Subscribe(t, h, p, o)
    \/ \E t \in ParTypes, h \in HandlerFns : Unsubscribe(t, h)
    \/ \E t \in ParTypes : Clear(t)
    \/ ClearAll
    \/ \E e \in Emitters, t \in ParTypes : EmitCall(e, t, FALSE)
    \/ \E e \in Emitters : HandlerFinish(e, FALSE)
    \/ \E e \in Emitters : EmitReturn(e)

SpecOverlap == Init /\ [][NextOverlap]_vars

\* ------------------------------------------------------ termination signals
\* run_forever on an engine with one plugin and one platform: one start, and
\* a task created for stop() by every termination signal that arrives
\* (signal_handler, lines 169-171); the hooks return.
NextSignals ==
    \/ \E n \in EngPlatforms : RegisterPlatform(n)
    \/ \E n \in EngPlugins : RegisterPlugin(n)
    \/ \E s \in LifeStarters : FirstRun /\ StartCall(s)
    \/ \E s \in LifeStarters : OnLoadDone(s, FALSE)
    \/ \E s \in LifeStarters : StartedEmitDone(s)
    \/ \E s \in LifeStarters : StartWake(s)
    \/ \E t \in SignalTasks : StopCall(t)
    \/ \E t \in SignalTasks : StoppingEmitDone(t)
    \/ \E t \in SignalTasks : PlatformStopDone(t, FALSE)
    \/ \E t \in SignalTasks : OnUnloadDone(t, FALSE)

SpecSignals == Init /\ [][NextSignals]_vars

\* ------------------------------------------------------- loader and registry
\* The loader's calls and direct calls of register_plugin on one engine that
\* is not started.
NextCache ==
    \/ \E n \in PluginNames, unit \in {"ok", "missing"} : Load(n, unit)
    \/ \E n \in PluginNames : Unload(n)
    \/ \E n \in PluginNames, unit \in {"ok", "missing"} : Reload(n, unit)
    \/ \E n \in PluginNames : RegisterPlugin(n)

SpecCache == Init /\ [][NextCache]_vars

\* -------------------------------------------------------------- event types
\* The bus with handlers subscribed to a base type and to a type derived
\* from it, and one task that calls emit and emit_parallel with events of
\* either type; the events are not cancelled.
NextTypes ==
    \/ \E t \in EventTypes, h \in HandlerFns, p \in Priorities, o \in BOOLEAN :
          Subscribe(t, h, p, o)
    \/ \E t \in EventTypes, h \in HandlerFns : Unsubscribe(t, h)
    \/ \E e \in SeqEmitters, t \in EventTypes : EmitCall(e, t, FALSE)
    \/ \E e \in SeqEmitters, raised \in BOOLEAN : HandlerFinish(e, raised)
    \/ \E e \in SeqEmitters, t \in EventTypes : EmitParallelCall(e, t, FALSE)
    \/ \E e \in SeqEmitters, k \in 1..MaxSubs, raised \in BOOLEAN :
          ParallelHandlerFinish(e, k, raised)
    \/ \E e \in SeqEmitters : EmitReturn(e)

SpecTypes == Init /\ [][NextTypes]_vars

\* ------------------------------------------------------------------ claims
Rids(s) == {s[i].rid : i \in 1..Len(s)}

PairwiseDistinct(s) ==
    \A i, j \in 1..Len(s) : i # j => s[i].priority # s[j].priority

StrictlyIncreasing(s) ==
    \A i \in 1..Len(s) : i < Len(s) => s[i].priority < s[i + 1].priority

\* C1: when the registrations of the event's type at the call of emit have
\* pairwise distinct priorities, the handlers invoked so far are in strictly
\* increasing priority, and an emit that ends with the event not cancelled
\* has invoked every one of them, whatever the order of the subscriptions.
C1_PriorityOrder ==
    \A e \in Emitters :
        PairwiseDistinct(em[e].atCall) =>
            /\ StrictlyIncreasing(em[e].invoked)
            /\ (Ended(e) /\ ~em[e].cancelled) => Rids(em[e].invoked) = Rids(em[e].atCall)

\* C1 witness: MONITOR was subscribed before HIGH, and the emit that has just
\* ended invoked HIGH first and MONITOR second.
C1_Witness ==
    \E e \in Emitters :
        /\ Ended(e)
        /\ Len(em[e].invoked) = 2
        /\ em[e].invoked[1].priority = HIGH
        /\ em[e].invoked[2].priority = MONITOR
        /\ em[e].invoked[2].rid < em[e].invoked[1].rid

\* C2: while the event of a dispatch in progress is cancelled no further
\* handler is invoked in it; an emit called with a cancelled event invokes
\* none; and the step in which a handler cancels the event leaves that
\* handler running (the flag is looked at only before the next invocation).
C2_CancelStops ==
    [][\A e \in Emitters :
          /\ (em[e].pc = "handler" /\ em[e].cancelled) =>
                 (em'[e].invoked = em[e].invoked /\ em'[e].pc # "idle")
          /\ (em[e].pc = "idle" /\ em'[e].pc # "idle" /\ em'[e].cancelled) =>
                 (em'[e].invoked = <<>> /\ Ended(e)')
          /\ (em[e].pc = "handler" /\ ~em[e].cancelled /\ em'[e].cancelled) =>
                 (em'[e].pc = "handler" /\ em'[e].invoked = em[e].invoked)]_vars

\* C2 witness: an emit has ended after its first handler cancelled the event,
\* and the second registration was not invoked.
C2_Witness ==
    \E e \in Emitters :
        /\ Ended(e)
        /\ em[e].cancelled
        /\ Len(em[e].invoked) = 1
        /\ Len(em[e].atCall) = 2

\* C3: the exception of a handler never leaves emit, and an emit that ends
\* with the event not cancelled has invoked every registration of the call,
\* those after a handler that raised included.
C3_FaultIsolated ==
    \A e \in Emitters :
        /\ em[e].pc # "fault"
        /\ (Ended(e) /\ ~em[e].cancelled /\ em[e].raisedAt > 0) =>
               Len(em[e].invoked) = Len(em[e].atCall)

\* C3 witness: the first of two handlers raised, the second was invoked and
\* emit returned its event.
C3_Witness ==
    \E e \in Emitters :
        /\ em[e].pc = "returned"
        /\ em[e].raisedAt = 1
        /\ Len(em[e].invoked) = 2

\* C4 (as claimed): a one-time registration is invoked at most once over all
\* emits, and when the emit that invoked it has ended it is no longer in the
\* registration list - whether its handler returned or raised.
C4_OnceFiresOnce ==
    /\ \A r \in 1..MaxSubs : fired[r] <= 1
    /\ \A e \in Emitters :
          Ended(e) =>
              \A i \in 1..Len(em[e].invoked) :
                  em[e].invoked[i].once =>
                      em[e].invoked[i].rid \notin Rids(handlers[em[e].event_type])

\* C5: a dispatch in progress invokes exactly the registrations that were in
\* the list when emit was called, in that order, whatever is subscribed or
\* unsubscribed while it is suspended in a handler.
C5_SnapshotFixed ==
    \A e \in Emitters :
        /\ Len(em[e].invoked) <= Len(em[e].atCall)
        /\ em[e].invoked = SubSeq(em[e].atCall, 1, Len(em[e].invoked))
        /\ (Ended(e) /\ ~em[e].cancelled) => em[e].invoked = em[e].atCall

\* C5 witness: while the emit was suspended in its handler, another
\* registration was subscribed ahead of it and the handler's own registration
\* was unsubscribed; the emit has ended having invoked what was there at the
\* call.
C5_Witness ==
    \E e \in Emitters :
        /\ Ended(e)
        /\ ~em[e].cancelled
        /\ Len(em[e].invoked) = 1
        /\ ~em[e].invoked[1].once
        /\ Len(handlers[em[e].event_type]) = 1
        /\ handlers[em[e].event_type][1].rid \notin Rids(em[e].atCall)
        /\ handlers[em[e].event_type][1].priority < em[e].invoked[1].priority

\* the instance the registry d holds under name n, 0 when it holds none
DictGet(d, n) ==
    IF \E k \in 1..Len(d) : d[k].name = n
    THEN LET k == CHOOSE k \in 1..Len(d) : d[k].name = n IN d[k].inst
    ELSE 0

\* a plugin instance counts as loaded: on_load was invoked on it with no
\* on_unload after, or the loader or the engine registry refers to it
Loaded(i) ==
    /\ inst[i].name # "-"
    /\ \/ inst[i].live
       \/ loaded[inst[i].name] = i
       \/ DictGet(plugins, inst[i].name) = i

\* C6: load(name) for a name in the tracked set returns the tracked instance,
\* constructs nothing and changes neither the tracked set nor the engine
\* registry; the load that constructed the instance returned that instance
\* and registered it.
C6_LoadTwice ==
    [][lastCall'.op = "load" =>
          /\ loaded[lastCall'.name] # 0 =>
                 /\ lastCall'.ret = loaded[lastCall'.name]
                 /\ UNCHANGED <<loaded, plugins, nextInst, inst>>
          /\ lastCall'.note = "plugin_loaded" =>
                 /\ loaded'[lastCall'.name] = lastCall'.ret
                 /\ DictGet(plugins', lastCall'.name) = lastCall'.ret]_vars

\* C6 witness: a load has just returned the instance that was tracked already.
C6_Witness ==
    /\ lastCall.op = "load"
    /\ lastCall.note = "plugin_already_loaded"
    /\ lastCall.ret # 0
    /\ loaded[lastCall.name] = lastCall.ret

\* C7 (as claimed): at most one instance of a name is loaded at any time.
C7_OneInstancePerName ==
    \A n \in PluginNames :
        Cardinality({i \in 1..MaxInst : inst[i].name = n /\ Loaded(i)}) <= 1

\* the load-hook loop of start is over: the engine runs and no start is
\* suspended in an on_load
HooksDone == running /\ \A s \in Starters : st[s].pc # "on_load"

\* C8 (as claimed): a load that follows an unload of the same name returns a
\* new instance, and on_load is invoked again, on the new instance; checked
\* where only the load itself can invoke it: the engine is past its
\* load-hook loop, in which the earlier instance had its on_load.
C8_ReloadFiresOnLoad ==
    (/\ lastCall.op \in {"load", "reload"}
     /\ lastCall.note = "plugin_loaded"
     /\ \E j \in 1..MaxInst :
           j # lastCall.ret /\ inst[j].name = lastCall.name /\ inst[j].loads >= 1) =>
        /\ loaded[lastCall.name] = lastCall.ret
        /\ HooksDone => inst[lastCall.ret].loads >= 1

\* C9: while the engine is running a call of start returns at once: the
\* calling task does not enter start's body, and the step of the call leaves
\* the running flag, the hook counts of every plugin, the platform tasks and
\* the emitted events as they were.
C9_StartIdempotent ==
    [][\A s \in Starters :
          (running /\ st[s].pc = "idle") =>
              /\ st'[s].pc = "idle"
              /\ (lastCall'.op = "start" /\ lastCall'.name = s) =>
                     /\ lastCall'.note = "engine_already_running"
                     /\ UNCHANGED <<running, shutdown_event, inst, plat, emitted,
                                    plugins, platforms, loaded>>]_vars

\* C9 witness: a start has just returned "already running" while another
\* task is inside start, with a plugin and a platform registered.
C9_Witness ==
    /\ lastCall.op = "start"
    /\ lastCall.note = "engine_already_running"
    /\ running
    /\ \E s \in Starters : st[s].pc = "waiting"
    /\ plugins # <<>>
    /\ platforms # <<>>

\* C10: while the engine is not running a call of stop returns at once: the
\* calling task does not enter stop's body, and the step of the call emits
\* nothing, stops no platform, invokes no on_unload and leaves the engine
\* state as it was.
C10_StopIdempotent ==
    [][\A t \in Stoppers :
          (~running /\ sp[t].pc = "idle") =>
              /\ sp'[t].pc = "idle"
              /\ (lastCall'.op = "stop" /\ lastCall'.name = t) =>
                     /\ lastCall'.note = "not_running"
                     /\ UNCHANGED <<running, shutdown_event, inst, plat, emitted,
                                    plugins, platforms, loaded>>]_vars

\* C10 witness: a stop has just returned from an engine that was started and
\* stopped before, with a plugin and a platform registered.
C10_Witness ==
    /\ lastCall.op = "stop"
    /\ lastCall.note = "not_running"
    /\ ~running
    /\ emitted.stopping >= 1
    /\ plugins # <<>>
    /\ platforms # <<>>

\* the platforms registered with the engine
Registered == {platforms[k] : k \in 1..Len(platforms)}

\* the plugin instances the engine registry holds
Held == {plugins[k].inst : k \in 1..Len(plugins)}

\* C11: in a stop call, a platform's stop() is invoked only after the emit of
\* EngineStopping has returned and before any on_unload of the call; the
\* first on_unload is invoked only when the stop() of every registered
\* platform has been invoked and has ended; the running flag is cleared only
\* by the step that ends the call, after the last on_unload has ended; and
\* while the call is suspended in the emit of EngineStopping the engine is
\* running and no step stops a platform or unloads a plugin.
C11_StopOrder ==
    [][\A t \in Stoppers :
          LET f == sp[t]
              g == sp'[t]
          IN /\ (g # f /\ g.pc = "platform_stop") =>
                    /\ f.pc \in {"emit_stopping", "platform_stop"}
                    /\ running /\ running'
                    /\ \A i \in 1..MaxInst : inst'[i].unloads = inst[i].unloads
             /\ (g # f /\ g.pc = "on_unload") =>
                    /\ f.pc \in {"emit_stopping", "platform_stop", "on_unload"}
                    /\ f.pc = "emit_stopping" => platforms = <<>>
                    /\ f.pc = "platform_stop" => f.pos = Len(platforms)
                    /\ running /\ running'
             /\ (running /\ ~running') =>
                    /\ g.pc = "idle"
                    /\ f.pc \in {"emit_stopping", "platform_stop", "on_unload"}
                    /\ f.pc = "emit_stopping" => (platforms = <<>> /\ plugins = <<>>)
                    /\ f.pc = "platform_stop" =>
                           (f.pos = Len(platforms) /\ plugins = <<>>)
                    /\ f.pc = "on_unload" => f.pos = Len(plugins)
             /\ f.pc = "emit_stopping" =>
                    /\ running
                    /\ g.pc = "emit_stopping" =>
                           /\ \A p \in PlatNames : plat'[p].stops = plat[p].stops
                           /\ \A i \in 1..MaxInst :
                                  inst'[i].unloads = inst[i].unloads]_vars

\* C11 witness: a stop has just ended on an engine with two platforms and two
\* plugins: every platform was stopped, every plugin unloaded, and the
\* running flag is cleared.
C11_Witness ==
    /\ lastCall.op = "stop"
    /\ lastCall.note = "engine_stopped"
    /\ ~running
    /\ Cardinality(Registered) = 2
    /\ Cardinality(Held) = 2
    /\ \A p \in Registered : plat[p].stops = 1
    /\ \A i \in Held : inst[i].unloads = 1

\* C12: in a start call the k-th on_load is invoked on the k-th entry of the
\* plugin registry, one after the other has ended, and while they run no
\* platform task is created and EngineStarted is not emitted; the platform
\* tasks are created only after the on_load of the last entry has ended, a
\* task for every registered platform, and EngineStarted is emitted only by
\* the step that has created them all.
C12_StartOrder ==
    [][\A s \in Starters :
          LET f == st[s]
              g == st'[s]
          IN /\ (g # f /\ g.pc = "on_load") =>
                    /\ f.pc \in {"idle", "on_load"}
                    /\ g.pos = (IF f.pc = "idle" THEN 0 ELSE f.pos) + 1
                    /\ g.pos <= Len(plugins)
                    /\ LET i == plugins[g.pos].inst
                       IN /\ inst'[i].live
                          /\ inst'[i].loads = Bump(inst[i].loads)
                          /\ \A j \in 1..MaxInst : j # i => inst'[j] = inst[j]
                    /\ plat' = plat
                    /\ emitted' = emitted
             /\ (g # f /\ g.pc = "emit_started") =>
                    /\ f.pc \in {"idle", "on_load"}
                    /\ f.pc = "idle" => plugins = <<>>
                    /\ f.pc = "on_load" => f.pos = Len(plugins)
                    /\ \A p \in Registered :
                          /\ plat'[p].task = "pending"
                          /\ plat'[p].starts = Bump(plat[p].starts)
                    /\ emitted'.started = Bump(emitted.started)
             /\ (emitted'.started # emitted.started
                    \/ \E p \in PlatNames : plat'[p].starts # plat[p].starts) =>
                    \E r \in Starters : st'[r] # st[r] /\ st'[r].pc = "emit_started"]_vars

\* C12 witness: a start is suspended in the emit of EngineStarted with two
\* plugins and two platforms registered: both on_load hooks were invoked and
\* a task was created for both platforms.
C12_Witness ==
    /\ \E s \in Starters : st[s].pc = "emit_started"
    /\ Len(plugins) = 2
    /\ \A i \in Held : inst[i].loads = 1
    /\ Cardinality(Registered) = 2
    /\ \A p \in Registered : plat[p].starts = 1 /\ plat[p].task = "pending"
    /\ emitted.started = 1

\* C13: when an on_load of a start call has raised, the call goes on as if it
\* had returned, unless the plugin registry changed size meanwhile: the
\* on_load of the next entry is invoked, and after the last entry a task is
\* created for every registered platform and EngineStarted is emitted; no
\* start ends with the exception of a hook; and the step in which the task
\* of a platform's start() raises leaves the start call, the running flag,
\* the other platforms' tasks and the emitted events as they were.
C13_StartFaultIsolated ==
    [][/\ \A s \in Starters :
            LET f == st[s]
                g == st'[s]
            IN /\ (f.pc = "on_load" /\ g # f /\ Len(plugins) = f.n
                      /\ (g.faulted \/ lastCall'.note = "Exception")) =>
                      IF f.pos < f.n
                      THEN /\ g.pc = "on_load"
                           /\ g.pos = f.pos + 1
                           /\ inst'[plugins[g.pos].inst].loads =
                                  Bump(inst[plugins[g.pos].inst].loads)
                      ELSE /\ g.pc = "emit_started"
                           /\ \A p \in Registered : plat'[p].task = "pending"
                           /\ emitted'.started = Bump(emitted.started)
               /\ (f.pc \in {"emit_started", "waiting"} /\ f.faulted /\ g # f) =>
                      /\ g.pc \in {"waiting", "idle"}
                      /\ g.pc = "idle" => lastCall'.note = "returned"
       /\ lastCall'.op = "start" => lastCall'.note # "Exception"
       /\ \A p \in PlatNames :
            (plat[p].task = "pending" /\ plat'[p].task = "raised") =>
                /\ UNCHANGED <<st, running, emitted, inst, plugins, platforms>>
                /\ plat'[p].starts = plat[p].starts
                /\ \A q \in PlatNames : q # p => plat'[q] = plat[q]]_vars

\* C13 witness: a start in which an on_load raised has returned: both
\* plugins had their on_load, both platforms their task, of which one has
\* raised, and EngineStarted was emitted.
C13_Witness ==
    /\ lastCall.op = "start"
    /\ lastCall.note = "returned"
    /\ lastCall.ret = 1
    /\ Len(plugins) = 2
    /\ \A i \in Held : inst[i].loads = 1
    /\ Cardinality(Registered) = 2
    /\ \A p \in Registered : plat[p].starts = 1
    /\ \E p \in Registered : plat[p].task = "raised"
    /\ emitted.started = 1

\* a hook of the stop call of task t has raised: before this step, in it, or
\* leaving the call in it
StopFaulted(t) ==
    \/ sp[t].faulted
    \/ sp'[t].faulted
    \/ (lastCall'.op = "stop" /\ lastCall'.name = t
          /\ (lastCall'.ret = 1 \/ lastCall'.note = "Exception"))

\* the stop call of task t ends in this step, having cleared the running
\* flag and set the shutdown event, on which the task inside start waits
StopCompletes(t) ==
    /\ sp'[t].pc = "idle"
    /\ lastCall'.note = "engine_stopped"
    /\ ~running'
    /\ shutdown_event'

\* the stop call of task t enters its plugin loop in this step
UnloadBegins(t) ==
    IF plugins = <<>> THEN StopCompletes(t)
    ELSE /\ sp'[t].pc = "on_unload"
         /\ sp'[t].pos = 1
         /\ inst'[plugins[1].inst].unloads = Bump(inst[plugins[1].inst].unloads)

\* C14: when a platform's stop() or an on_unload of a stop call has raised,
\* the call goes on as if it had returned, unless the registry it walks
\* changed size meanwhile: the stop() of the next platform is invoked, after
\* the last platform the on_unload of every plugin in turn, and after the
\* last plugin the running flag is cleared and the shutdown event set, which
\* releases the task waiting in start; no stop ends with the exception of a
\* hook.
C14_StopFaultIsolated ==
    [][/\ \A t \in Stoppers :
            LET f == sp[t]
                g == sp'[t]
            IN /\ (f.pc = "platform_stop" /\ g # f /\ Len(platforms) = f.n
                      /\ StopFaulted(t)) =>
                      IF f.pos < f.n
                      THEN /\ g.pc = "platform_stop"
                           /\ g.pos = f.pos + 1
                           /\ plat'[platforms[g.pos]].stops =
                                  Bump(plat[platforms[g.pos]].stops)
                      ELSE UnloadBegins(t)
               /\ (f.pc = "on_unload" /\ g # f /\ Len(plugins) = f.n
                      /\ StopFaulted(t)) =>
                      IF f.pos < f.n
                      THEN /\ g.pc = "on_unload"
                           /\ g.pos = f.pos + 1
                           /\ inst'[plugins[g.pos].inst].unloads =
                                  Bump(inst[plugins[g.pos].inst].unloads)
                      ELSE StopCompletes(t)
       /\ lastCall'.op = "stop" => lastCall'.note # "Exception"
       /\ \A s \in Starters :
            (st[s].pc = "waiting" /\ st'[s] # st[s]) =>
                /\ shutdown_event
                /\ st'[s].pc = "idle"
                /\ lastCall'.note = "returned"]_vars

\* C14 witness: a stop in which a hook raised has just ended: both platforms
\* were stopped, both plugins unloaded, the running flag is cleared and the
\* task waiting in start can go on.
C14_Witness ==
    /\ lastCall.op = "stop"
    /\ lastCall.note = "engine_stopped"
    /\ lastCall.ret = 1
    /\ ~running
    /\ shutdown_event
    /\ \E s \in Starters : st[s].pc = "waiting"
    /\ Cardinality(Registered) = 2
    /\ Len(plugins) = 2
    /\ \A p \in Registered : plat[p].stops = 1
    /\ \A i \in Held : inst[i].unloads = 1

\* C15 (as claimed): after request_shutdown() on a running engine the stop
\* sequence runs: EngineStopping is emitted and the running flag is
\* eventually cleared.
C15_ShutdownStops ==
    (lastCall.op = "request_shutdown" /\ running /\ emitted.stopping = 0)
        ~> (emitted.stopping >= 1 /\ ~running)

\* C16 (as claimed): when a start call that went through startup returns,
\* the running flag is cleared and no stop call is in progress; looked at
\* where no other task is inside start, so that no later start call can have
\* set the flag again.
C16_ReturnMeansStopped ==
    (/\ lastCall.op = "start"
     /\ lastCall.note = "returned"
     /\ \A s \in Starters : st[s].pc = "idle") =>
        (~running /\ \A t \in Stoppers : sp[t].pc = "idle")

\* the names under which providers are registered
ProviderKeys == {providers[k].name : k \in 1..Len(providers)}

\* C17: get_default_provider returns the provider last registered under the
\* configured default name when that name is registered; else the provider
\* of the name that was registered first, when there is one; else None.
C17_DefaultProvider ==
    lastCall.op = "get_default_provider" =>
        /\ default_provider \in ProviderKeys =>
               /\ lastCall.ret = 1
               /\ \E k \in 1..Len(providers) :
                     /\ providers[k].name = default_provider
                     /\ lastCall.note = providers[k].inst
        /\ (default_provider \notin ProviderKeys /\ providers # <<>>) =>
               (lastCall.ret = 1 /\ lastCall.note = Head(providers).inst)
        /\ providers = <<>> => (lastCall.ret = 0 /\ lastCall.note = "-")

\* C17 witness: the configured default name was registered after another
\* name, with another object, and get_default_provider has just returned the
\* default's object, not the first-registered one.
C17_Witness ==
    /\ lastCall.op = "get_default_provider"
    /\ Len(providers) >= 2
    /\ providers[2].name = default_provider
    /\ providers[1].inst # providers[2].inst
    /\ lastCall.note = providers[2].inst

\* C18 (as claimed): when a registered adapter has handled an inbound message
\* on a running engine with a plugin registered, the on_message hook of at
\* least one plugin was invoked for it.
C18_PluginPipeline ==
    (/\ lastCall.op = "handle_message"
     /\ lastCall.note = "message_event"
     /\ running
     /\ plugins # <<>>) =>
        lastCall.ret >= 1

\* C19 (as claimed): with echo and chat registered and their on_load run, echo's
\* on_message reports a message with the command ping as handled, and chat's
\* reports it as not handled.
C19_EchoHandlesPing ==
    (/\ lastCall.op = "on_message"
     /\ lastCall.note = "ping"
     /\ Len(plugins) = 2
     /\ \A i \in 1..MaxInst : inst[i].name # "-" => inst[i].loads >= 1) =>
        /\ lastCall.name = "echo" => lastCall.ret = 1
        /\ lastCall.name = "chat" => lastCall.ret = 0

\* the registration list s is in non-decreasing priority order, and
\* registrations of equal priority are in the order of their subscription
StableOrder(s) ==
    \A i, j \in 1..Len(s) :
        i < j => /\ s[i].priority <= s[j].priority
                 /\ s[i].priority = s[j].priority => s[i].rid < s[j].rid

\* C20: whatever was subscribed, unsubscribed, emitted and cleared, the
\* registration list of every event type is in non-decreasing priority order
\* with equal priorities in subscription order; a subscribe adds one
\* registration to the list even when the handler is registered already;
\* and an emit that ends with the event not cancelled has invoked every
\* registration of a handler that was registered more than once.
C20_StableOrder ==
    /\ [](/\ \A t \in EventTypes : StableOrder(handlers[t])
          /\ \A e \in Emitters :
                (Ended(e) /\ ~em[e].cancelled) =>
                    \A i \in 1..Len(em[e].atCall) :
                        (\E j \in 1..Len(em[e].atCall) :
                            j # i /\ em[e].atCall[j].handler = em[e].atCall[i].handler)
                        => em[e].atCall[i].rid \in Rids(em[e].invoked))
    /\ [][nextRid' # nextRid =>
             \E t \in EventTypes :
                 /\ Len(handlers'[t]) = Len(handlers[t]) + 1
                 /\ Rids(handlers'[t]) = Rids(handlers[t]) \cup {nextRid}]_vars

\* C20 witness: one handler was subscribed twice with the same priority; both
\* registrations are in the list, and the emit that has just ended invoked
\* both, the earlier subscription first.
C20_Witness ==
    \E e \in Emitters :
        /\ Ended(e)
        /\ Len(em[e].invoked) = 2
        /\ em[e].invoked[1].handler = em[e].invoked[2].handler
        /\ em[e].invoked[1].priority = em[e].invoked[2].priority
        /\ em[e].invoked[1].rid < em[e].invoked[2].rid
        /\ ~em[e].invoked[1].once /\ ~em[e].invoked[2].once
        /\ Len(handlers[em[e].event_type]) = 2

\* the call in task e is a sequential emit
Sequential(e) == em[e].op = "emit"

\* C21: in one sequential emit at most one handler is in progress at any
\* time; a handler is invoked only when every handler the call invoked
\* before has returned or raised; and when a handler of priority MONITOR
\* is invoked, every HIGH registration the list held at the call has been
\* invoked and has finished.
C21_OneAtATime ==
    /\ [](\A e \in Emitters :
             Sequential(e) =>
                 /\ Cardinality(em[e].active) <= 1
                 /\ em[e].active \subseteq {Len(em[e].invoked)})
    /\ [][\A e \in Emitters :
             (Sequential(e) /\ em'[e].op = "emit"
                 /\ Len(em'[e].invoked) = Len(em[e].invoked) + 1) =>
                 LET k == Len(em'[e].invoked)
                 IN /\ em[e].active \cap em'[e].active = {}
                    /\ em'[e].active = {k}
                    /\ em'[e].invoked[k].priority = MONITOR =>
                          \A i \in 1..Len(em[e].atCall) :
                              em[e].atCall[i].priority = HIGH =>
                                  \E j \in 1..(k - 1) :
                                      /\ em'[e].invoked[j].rid = em[e].atCall[i].rid
                                      /\ j \notin em'[e].active]_vars

\* C21 witness: a sequential emit invoked a HIGH handler, which has finished,
\* and then a MONITOR handler, which is in progress.
C21_Witness ==
    \E e \in Emitters :
        /\ Sequential(e)
        /\ Len(em[e].invoked) = 2
        /\ em[e].invoked[1].priority = HIGH
        /\ em[e].invoked[2].priority = MONITOR
        /\ em[e].active = {2}

Holding(n) == {k \in 1..Len(plugin_dirs) : UnitIn(plugin_dirs[k], n) # "-"}

\* the first directory in the list that holds a unit named n
FirstHolding(n) ==
    plugin_dirs[CHOOSE k \in Holding(n) : \A j \in Holding(n) : k <= j]

\* load(n) is going to fail in one of these ways: no registered directory
\* holds the unit, or the unit that is found defines no Plugin class, or
\* raises when it is run, or its constructor raises
FailsToLoad(n) ==
    \/ Holding(n) = {}
    \/ UnitIn(FirstHolding(n), n) \in {"no_class", "exec_raises", "ctor_raises"}

\* C23: a load of a name that is not tracked and that fails (no unit, no
\* Plugin class, unit or constructor raises) returns None, having logged the
\* failure, and the tracked set, the engine's plugin registry and every
\* plugin instance are as they were before the call.
C23_FailedLoadFrame ==
    [][(lastCall'.op = "load" /\ loaded[lastCall'.name] = 0
            /\ FailsToLoad(lastCall'.name)) =>
          /\ lastCall'.ret = 0
          /\ lastCall'.note \in {"plugin_not_found", "no_plugin_class",
                                 "plugin_load_failed"}
          /\ loaded' = loaded
          /\ plugins' = plugins
          /\ inst' = inst
          /\ nextInst' = nextInst]_vars

\* C23 witness: with echo loaded, a load of chat has just failed because the
\* constructor raised; chat is not tracked and echo still is.
C23_Witness ==
    /\ lastCall.op = "load" /\ lastCall.name = "chat"
    /\ lastCall.ret = 0 /\ lastCall.note = "plugin_load_failed"
    /\ Holding("chat") # {}
    /\ UnitIn(FirstHolding("chat"), "chat") = "ctor_raises"
    /\ loaded["chat"] = 0
    /\ loaded["echo"] # 0
    /\ \E k \in 1..Len(plugins) : plugins[k].inst = loaded["echo"]

\* C24: a load of an untracked name whose unit is held by directories of the
\* list takes the unit of the first of them: when that unit loads, the
\* instance returned comes from that directory, and when it does not, None is
\* returned although a later directory may hold a unit that loads. A call of
\* add_directory with a path that is not on the file system leaves the list
\* as it is and returns; the list only grows by a path that exists when it
\* is passed; and no instance comes from a directory outside the list.
C24_FirstDirectoryWins ==
    /\ [][(lastCall'.op = "load" /\ loaded[lastCall'.name] = 0
              /\ Holding(lastCall'.name) # {}) =>
             LET n == lastCall'.name
                 d == FirstHolding(n)
             IN IF UnitIn(d, n) = "ok"
                THEN /\ lastCall'.ret = nextInst
                     /\ loaded'[n] = nextInst
                     /\ origin'[nextInst] = d
                ELSE lastCall'.ret = 0]_vars
    /\ [][/\ (lastCall'.op = "add_directory" /\ lastCall'.name \notin on_disk) =>
                (plugin_dirs' = plugin_dirs /\ lastCall'.note = "-")
          /\ plugin_dirs' # plugin_dirs =>
                \E d \in on_disk : plugin_dirs' = Append(plugin_dirs, d)]_vars
    /\ [](\A i \in 1..MaxInst :
             origin[i] # "-" =>
                 \E k \in 1..Len(plugin_dirs) : plugin_dirs[k] = origin[i])

\* C24 witness: two directories that both hold a unit echo that loads are in
\* the list, and the instance of echo comes from the one registered first;
\* then add_directory was called with a path that is not on the file system.
C24_Witness ==
    /\ plugin_dirs = <<"contrib", "plugins">>
    /\ loaded["echo"] # 0
    /\ origin[loaded["echo"]] = "contrib"
    /\ lastCall.op = "add_directory"
    /\ lastCall.name = "extra"
    /\ "extra" \notin on_disk

\* BotEngine._platforms as a list of [name, inst], given its keys pf in
\* insertion order and the records pl of the platforms
PlatformRegistry(pf, pl) ==
    [k \in 1..Len(pf) |-> [name |-> pf[k], inst |-> pl[pf[k]].obj]]

\* the registry d2 is the registry d after instance i was stored under name
\* n: n maps to i, no name occurs twice, an existing name is where it was, a
\* new name is at the end, and every other name has its place and instance
StoredIn(d, d2, n, i) ==
    /\ \A j, k \in 1..Len(d2) : d2[j].name = d2[k].name => j = k
    /\ \E k \in 1..Len(d2) : d2[k] = [name |-> n, inst |-> i]
    /\ IF \E k \in 1..Len(d) : d[k].name = n
       THEN /\ Len(d2) = Len(d)
            /\ \A k \in 1..Len(d) :
                  /\ d2[k].name = d[k].name
                  /\ d[k].name # n => d2[k] = d[k]
       ELSE d2 = Append(d, [name |-> n, inst |-> i])

\* C25: a registration stores the instance under the name in its own
\* registry, in place of the instance the name had, the name keeping its
\* position (or going to the end when it is new) and all other entries
\* staying as they are; the other two registries are as they were.
C25_RegistryFrame ==
    [][/\ lastCall'.op = "register_platform" =>
             /\ StoredIn(PlatformRegistry(platforms, plat),
                         PlatformRegistry(platforms', plat'),
                         lastCall'.name, lastCall'.note)
             /\ providers' = providers
             /\ plugins' = plugins
       /\ lastCall'.op = "register_provider" =>
             /\ StoredIn(providers, providers', lastCall'.name, lastCall'.note)
             /\ platforms' = platforms /\ plat' = plat
             /\ plugins' = plugins
       /\ lastCall'.op = "register_plugin" =>
             /\ StoredIn(plugins, plugins', lastCall'.name, nextInst)
             /\ platforms' = platforms /\ plat' = plat
             /\ providers' = providers]_vars

\* C25 witness: the provider registry has two names, and an object was just
\* registered again under the first of them, which is still the first; in
\* the plugin registry a second instance has taken the place of the first
\* under the same name; the platform registry holds an entry.
C25_Witness ==
    /\ lastCall.op = "register_provider"
    /\ Len(providers) = 2
    /\ providers[1] = [name |-> lastCall.name, inst |-> lastCall.note]
    /\ Len(plugins) = 1
    /\ plugins[1].inst = 2
    /\ inst[1].name = plugins[1].name
    /\ Len(platforms) = 1

\* every plugin instance in the plugin registry has the engine as its engine
PluginsReferEngine ==
    \A k \in 1..Len(plugins) : inst[plugins[k].inst].engine

\* every adapter in the platform registry has the engine as its engine
PlatformsReferEngine ==
    \A k \in 1..Len(platforms) : plat[platforms[k]].engine

\* every provider in the provider registry has the engine as its engine
ProvidersReferEngine ==
    \A k \in 1..Len(providers) : provider_engine[providers[k].inst]

\* C26: every instance that is in one of the three registries carries an
\* engine attribute that refers to the engine it was registered with.
C26_BackReference ==
    PluginsReferEngine /\ PlatformsReferEngine /\ ProvidersReferEngine

\* the call in task e is an emit_parallel
Parallel(e) == em[e].op = "emit_parallel"

\* C27: an emit_parallel call has invoked every registration the list held at
\* the call, each once, whatever its priority and whether or not the event
\* was cancelled at the call or by a handler; it does not end by raising; and
\* when it has ended, every handler it invoked has finished, also when
\* another handler has raised.
C27_ParallelInvokesAll ==
    \A e \in Emitters :
        Parallel(e) =>
            /\ em[e].invoked = em[e].atCall
            /\ \A i, j \in 1..Len(em[e].invoked) :
                  i # j => em[e].invoked[i].rid # em[e].invoked[j].rid
            /\ em[e].pc \in {"gather", "returned"}
            /\ em[e].pc = "gather" => em[e].active # {}
            /\ Ended(e) => em[e].active = {}

\* C27 witness: an emit_parallel of a cancelled event has returned; it had
\* invoked a HIGH and a MONITOR handler, the MONITOR handler raised, and
\* both have finished.
C27_Witness ==
    \E e \in Emitters :
        /\ Parallel(e)
        /\ em[e].pc = "returned"
        /\ em[e].cancelled
        /\ Len(em[e].invoked) = 2
        /\ em[e].invoked[1].priority = HIGH
        /\ em[e].invoked[2].priority = MONITOR
        /\ em[e].raisedAt = 2
        /\ em[e].active = {}

\* C28: when an emit_parallel has returned, no one-time registration that it
\* invoked is in the registration list of the event's type.
C28_ParallelRemovesOnce ==
    \A e \in Emitters :
        (Parallel(e) /\ em[e].pc = "returned") =>
            \A i \in 1..Len(em[e].invoked) :
                em[e].invoked[i].once =>
                    em[e].invoked[i].rid \notin Rids(handlers[em[e].event_type])

\* the positions in s of the registrations whose handler is h
Matching(s, h) == {i \in 1..Len(s) : s[i].handler = h}

\* C29: an unsubscribe(t, h) with a registration of h in the list of t takes
\* out the first such registration, leaves the rest of the list in its
\* order, and returns True; with no registration of h in that list it
\* returns False and the list is as it was; the lists of all other event
\* types are as they were in both cases.
C29_UnsubscribeFirst ==
    [][lastCall'.op = "unsubscribe" =>
          LET t == lastCall'.note
              h == lastCall'.name
              s == handlers[t]
              m == Matching(s, h)
          IN /\ \A u \in EventTypes \ {t} : handlers'[u] = handlers[u]
             /\ IF m = {}
                THEN lastCall'.ret = 0 /\ handlers'[t] = s
                ELSE LET i == CHOOSE i \in m : \A j \in m : i <= j
                     IN /\ lastCall'.ret = 1
                        /\ Len(handlers'[t]) = Len(s) - 1
                        /\ \A k \in 1..(Len(s) - 1) :
                              handlers'[t][k] = IF k < i THEN s[k] ELSE s[k + 1]]_vars

\* C29 witness: an unsubscribe has just returned True for a handler that was
\* subscribed twice for the type; the second of its two registrations in the
\* list, one of MONITOR priority, is still there.
C29_Witness ==
    /\ lastCall.op = "unsubscribe"
    /\ lastCall.ret = 1
    /\ nextRid = 3
    /\ Len(handlers[lastCall.note]) = 1
    /\ handlers[lastCall.note][1].handler = lastCall.name
    /\ handlers[lastCall.note][1].priority = MONITOR
    /\ \A u \in EventTypes \ {lastCall.note} : handlers[u] = <<>>
    /\ \A e \in Emitters : em[e].pc = "idle"

\* the positions in the command dict d whose alias list contains name
Aliased(d, name) == {k \in 1..Len(d) : name \in d[k].aliases}

\* C30: get_command(name) returns the handler of the command whose primary
\* name is name when there is one, whether or not name is an alias of
\* another command; else the handler of the first command in registration
\* order that has name among its aliases; else None. A register_command
\* under a primary name that is registered already leaves one entry of that
\* name, with the new handler and aliases, and as many entries as before.
C30_GetCommand ==
    /\ [](lastCall.op = "get_command" =>
             LET n == lastCall.name
                 d == commands
             IN IF \E k \in 1..Len(d) : d[k].name = n
                THEN \A k \in 1..Len(d) : d[k].name = n => lastCall.note = d[k].handler
                ELSE IF Aliased(d, n) # {}
                THEN \E k \in Aliased(d, n) :
                        /\ \A j \in Aliased(d, n) : k <= j
                        /\ lastCall.note = d[k].handler
                ELSE lastCall.note = "-" /\ lastCall.ret = 0)
    /\ [](\A j, k \in 1..Len(commands) : commands[j].name = commands[k].name => j = k)
    /\ [][(lastCall'.op = "register_command"
              /\ \E k \in 1..Len(commands) : commands[k].name = lastCall'.name) =>
             /\ Len(commands') = Len(commands)
             /\ \E k \in 1..Len(commands') :
                   /\ commands'[k].name = lastCall'.name
                   /\ commands'[k].handler = lastCall'.note]_vars

\* C30 witness: get_command was called with a name that is the primary name
\* of one command and an alias of a command registered before it, with
\* another handler; the handler of the primary name was returned.
C30_Witness ==
    /\ lastCall.op = "get_command"
    /\ \E j, k \in 1..Len(commands) :
          /\ j < k
          /\ lastCall.name \in commands[j].aliases
          /\ commands[k].name = lastCall.name
          /\ commands[j].handler # commands[k].handler
          /\ lastCall.note = commands[k].handler


\* the startup steps of BotEngine.start: no on_load is invoked, no platform
\* task is created and no EngineStartedEvent is emitted in this step
NoStartupStep ==
    /\ \A i \in 1..MaxInst : inst'[i].loads = inst[i].loads
    /\ \A p \in PlatNames : plat'[p].starts = plat[p].starts
    /\ emitted'.started = emitted.started

\* C31 (as claimed): shutdown never interleaves with the startup steps of
\* the current start(): while the engine is stopped (the running flag is
\* clear, so any stop() has completed) and no new start() is issued (the flag
\* stays clear), no on_load is invoked, no platform is started and no
\* EngineStarted is emitted.
C31_NoStartupAfterStop ==
    [][(~running /\ ~running') => NoStartupStep]_vars

StopBroken(t) == lastCall = Call("stop", t, 0, "RuntimeError")

C34_OnceAcrossOverlap ==
    \A e \in Emitters : \A e2 \in Emitters \ {e} :
        \A i \in 1..Len(em[e].invoked) : \A j \in 1..Len(em[e2].invoked) :
            (em[e].op = "emit" /\ em[e2].op = "emit" /\ em[e].invoked[i].once) =>
                em[e].invoked[i].rid # em[e2].invoked[j].rid

\* C35 (as claimed): the removal of the fired one-time registrations at the
\* end of emit never raises: no emit call ends with ValueError.
C35_RemovalNeverRaises ==
    \A e \in Emitters : em[e].op = "emit" => em[e].pc # "ValueError"

\* C36 (as claimed): in the one running period of an engine that is started
\* once, EngineStopping is emitted at most once, and on_unload of each plugin
\* instance and stop() of each platform is invoked at most once, however
\* many stop calls are made.
C36_UnloadAtMostOnce ==
    /\ emitted.stopping <= 1
    /\ \A i \in 1..MaxInst : inst[i].unloads <= 1
    /\ \A p \in PlatNames : plat[p].stops <= 1

\* C37 (as claimed): a registration made while start() or stop() is
\* suspended in a hook does not disrupt the call: no start or stop call
\* leaves with an error out of one of its registry loops.
C37_RegistrationSafe ==
    lastCall.op \in {"start", "stop"} => lastCall.note # "RuntimeError"

\* C38 (as claimed): on_unload is invoked on a plugin instance only after
\* on_load was invoked on that instance in the same running period (the
\* engine is started once).
C38_UnloadOnlyLoaded ==
    \A i \in 1..MaxInst : inst[i].unloads >= 1 => inst[i].loads >= 1

\* C39 (as claimed): every name in the loader's tracked set is a key of the
\* engine's plugin registry, and the two map it to the same instance.
C39_TrackedIsRegistered ==
    \A n \in PluginNames : loaded[n] # 0 => DictGet(plugins, n) = loaded[n]

\* the event type of the emit or emit_parallel call of task e that takes
\* this step
StepType(e) == IF em[e].pc = "idle" THEN em'[e].event_type ELSE em[e].event_type

\* C40: in every step of an emit or emit_parallel call, the registrations
\* it invokes are not in the list of any other event type (the base type of
\* the event included), and the lists of all other event types stay as they
\* are.
C40_OwnTypeOnly ==
    [][\A e \in SeqEmitters :
          em'[e] # em[e] =>
              \A t2 \in EventTypes \ {StepType(e)} :
                  /\ \A i \in (Len(em[e].invoked) + 1)..Len(em'[e].invoked) :
                        em'[e].invoked[i].rid \notin Rids(handlers[t2])
                  /\ handlers'[t2] = handlers[t2]]_vars

\* an emit or emit_parallel of an event of the derived type has invoked the
\* handler subscribed to that type and returned, while the one-time handler
\* subscribed to the base type has never been invoked and is still
\* registered
C40_Witness ==
    \E e \in SeqEmitters :
        /\ em[e].pc = "returned"
        /\ em[e].event_type = "Derived"
        /\ Len(em[e].invoked) = 1
        /\ Len(handlers["Derived"]) = 1
        /\ Len(handlers["Base"]) = 1
        /\ handlers["Base"][1].once
        /\ fired[handlers["Base"][1].rid] = 0

=============================================================================
